---- MODULE Spec2Model ----
(***************************************************************************)
(* Contract Oversight System: the scoring engine of src/src/scoring_engine.py *)
(* (ContractScoringEngine, VendorScoringEngine, AlertGenerator) and the    *)
(* BenchmarkingEngine of src/src/benchmarking.py as a state machine.       *)
(*                                                                         *)
(* A contract or milestone record is a Python dict: a function from the    *)
(* keys that are present to values.  A value is None, a number, a string   *)
(* or a datetime.  Numbers are exact rationals n/d in lowest terms: the    *)
(* binary rounding error of IEEE doubles is not modelled.                  *)
(***************************************************************************)
EXTENDS Integers, Sequences, FiniteSets, TLC

VARIABLES
    contract,    \* the dict handed to score_contract, mutated in place
    milestones,  \* the milestone list handed with it (None or a sequence of dicts)
    prev,        \* the contract as returned by the previous score_contract call
    calls,       \* number of calls made that write to their argument
    contracts,   \* the contract list (or table) handed to an engine
    kpi_values,  \* the dict of KPI values handed to the benchmarking engine
    peer_data,   \* the peer_data object handed with it (None or a dict)
    result       \* the last call of a value-returning function: op, arguments, outcome

vars == <<contract, milestones, prev, calls, contracts, kpi_values, peer_data, result>>

---------------------------------------------------------------------------
(* Python values *)

None == [t |-> "None"]

Abs(i) == IF i < 0 THEN -i ELSE i

RECURSIVE GCD(_, _)
GCD(a, b) == IF b = 0 THEN a ELSE GCD(b, a % b)

\* the number n/d (d # 0), in lowest terms with a positive denominator
Rat(n, d) ==
    LET g == GCD(Abs(n), Abs(d))
        s == IF d < 0 THEN -1 ELSE 1
    IN [t |-> "num", n |-> s * (n \div g), d |-> Abs(d) \div g]

Num(i) == [t |-> "num", n |-> i, d |-> 1]

\* float('nan'), the value a missing cell of a numeric table column has
NaN == [t |-> "num", n |-> 0, d |-> 0]
IsNaN(v) == v.t = "num" /\ v.d = 0

\* a str that is not a date, e.g. '' or 'TBD'
Str(s) == [t |-> "str", s |-> s]

\* a str 'YYYY-MM-DD' followed by tail ('' or a time part such as 'T09:30:00')
IsoStr(y, m, d, tail) == [t |-> "isostr", y |-> y, m |-> m, d |-> d, tail |-> tail]

IsNum(v) == v.t = "num"

\* bool(v)
Truthy(v) ==
    CASE v.t = "None" -> FALSE
      [] v.t = "num" -> v.n # 0 \/ v.d = 0
      [] v.t = "str" -> v.s # ""
      [] v.t = "bool" -> v.b
      [] OTHER -> TRUE

\* a or b
Or(a, b) == IF Truthy(a) THEN a ELSE b

\* {}
EmptyDict == [k \in {} |-> None]

\* dict.get(key, default) and dict.get(key)
Get(dict, key, default) == IF key \in DOMAIN dict THEN dict[key] ELSE default

GetOrNone(dict, key) == Get(dict, key, None)

\* dict[key] = value
Set(dict, key, value) == (key :> value) @@ dict

---------------------------------------------------------------------------
(* Arithmetic and comparison of numbers *)

\* an operation on nan gives nan, and every comparison with nan is False
Add(a, b) == IF IsNaN(a) \/ IsNaN(b) THEN NaN ELSE Rat(a.n * b.d + b.n * a.d, a.d * b.d)
Sub(a, b) == IF IsNaN(a) \/ IsNaN(b) THEN NaN ELSE Rat(a.n * b.d - b.n * a.d, a.d * b.d)
Mul(a, b) == IF IsNaN(a) \/ IsNaN(b) THEN NaN ELSE Rat(a.n * b.n, a.d * b.d)
Div(a, b) == IF IsNaN(a) \/ IsNaN(b) THEN NaN ELSE Rat(a.n * b.d, a.d * b.n)
Le(a, b) == ~IsNaN(a) /\ ~IsNaN(b) /\ a.n * b.d <= b.n * a.d
Lt(a, b) == ~IsNaN(a) /\ ~IsNaN(b) /\ a.n * b.d < b.n * a.d
Ge(a, b) == Le(b, a)

\* max(a, b) and min(a, b): the first argument unless the second is greater (smaller)
Max(a, b) == IF Lt(a, b) THEN b ELSE a
Min(a, b) == IF Lt(b, a) THEN b ELSE a

\* round(x, 1): the nearest multiple of 1/10, an exact tie going to the even one
Round1(x) ==
    IF IsNaN(x) THEN NaN
    ELSE LET q == (10 * x.n) \div x.d
             r == (10 * x.n) - q * x.d
             k == IF 2 * r < x.d THEN q
                  ELSE IF 2 * r > x.d THEN q + 1
                  ELSE IF q % 2 = 0 THEN q ELSE q + 1
         IN Rat(k, 10)

---------------------------------------------------------------------------
(* datetime *)

ValueError == [t |-> "ValueError"]
TypeError == [t |-> "TypeError"]

IsLeap(y) == (y % 4 = 0) /\ ((y % 100 # 0) \/ (y % 400 = 0))

DaysInMonth(y, m) ==
    IF m = 2 THEN (IF IsLeap(y) THEN 29 ELSE 28)
    ELSE IF m \in {4, 6, 9, 11} THEN 30 ELSE 31

RECURSIVE DaysBeforeMonth(_, _)
DaysBeforeMonth(y, m) ==
    IF m <= 1 THEN 0 ELSE DaysBeforeMonth(y, m - 1) + DaysInMonth(y, m - 1)

\* the proleptic Gregorian ordinal of a calendar date
ToOrdinal(y, m, d) ==
    LET p == y - 1
    IN p * 365 + (p \div 4) - (p \div 100) + (p \div 400) + DaysBeforeMonth(y, m) + d

\* datetime.fromisoformat(str(v)[:10]): the slice drops the tail; the date must
\* be a calendar date, anything else is a ValueError
fromisoformat10(v) ==
    IF v.t = "isostr" /\ v.m \in 1..12 /\ v.d >= 1 /\ v.d <= DaysInMonth(v.y, v.m)
    THEN [t |-> "datetime", y |-> v.y, m |-> v.m, d |-> v.d]
    ELSE ValueError

\* (a - b).days for two midnights
DaysBetween(a, b) == ToOrdinal(a.y, a.m, a.d) - ToOrdinal(b.y, b.m, b.d)

---------------------------------------------------------------------------
(* ContractScoringEngine *)

health_weights ==
    [cost_variance |-> Rat(30, 100), schedule_variance |-> Rat(25, 100),
     performance |-> Rat(25, 100), compliance |-> Rat(20, 100)]

risk_thresholds ==
    [critical |-> Num(30), high |-> Num(50), medium |-> Num(70), low |-> Num(100)]

\* fault: the linear tail without its floor of 20
cost_variance_score_no_floor(c) ==
    LET original == Or(Get(c, "original_amount", Num(0)), Num(0))
        current == Or(Get(c, "current_amount", Num(0)), Num(0))
    IN IF Le(original, Num(0)) THEN Num(50)
       ELSE LET variance_pct == Mul(Div(Sub(current, original), original), Num(100))
            IN IF Le(variance_pct, Num(0)) THEN Num(100)
               ELSE IF Le(variance_pct, Num(5)) THEN Num(95)
               ELSE IF Le(variance_pct, Num(10)) THEN Num(85)
               ELSE IF Le(variance_pct, Num(15)) THEN Num(70)
               ELSE IF Le(variance_pct, Num(20)) THEN Num(55)
               ELSE IF Le(variance_pct, Num(30)) THEN Num(40)
               ELSE Sub(Num(40), Sub(variance_pct, Num(30)))

\* fault: the 15% boundary tested with < instead of <=
cost_variance_score_strict15(c) ==
    LET original == Or(Get(c, "original_amount", Num(0)), Num(0))
        current == Or(Get(c, "current_amount", Num(0)), Num(0))
    IN IF Le(original, Num(0)) THEN Num(50)
       ELSE LET variance_pct == Mul(Div(Sub(current, original), original), Num(100))
            IN IF Le(variance_pct, Num(0)) THEN Num(100)
               ELSE IF Le(variance_pct, Num(5)) THEN Num(95)
               ELSE IF Le(variance_pct, Num(10)) THEN Num(85)
               ELSE IF Lt(variance_pct, Num(15)) THEN Num(70)
               ELSE IF Le(variance_pct, Num(20)) THEN Num(55)
               ELSE IF Le(variance_pct, Num(30)) THEN Num(40)
               ELSE Max(Num(20), Sub(Num(40), Sub(variance_pct, Num(30))))

\* fault: the tail of the schedule score (50 - ...) pasted into the cost score
cost_variance_score_tail50(c) ==
    LET original == Or(Get(c, "original_amount", Num(0)), Num(0))
        current == Or(Get(c, "current_amount", Num(0)), Num(0))
    IN IF Le(original, Num(0)) THEN Num(50)
       ELSE LET variance_pct == Mul(Div(Sub(current, original), original), Num(100))
            IN IF Le(variance_pct, Num(0)) THEN Num(100)
               ELSE IF Le(variance_pct, Num(5)) THEN Num(95)
               ELSE IF Le(variance_pct, Num(10)) THEN Num(85)
               ELSE IF Le(variance_pct, Num(15)) THEN Num(70)
               ELSE IF Le(variance_pct, Num(20)) THEN Num(55)
               ELSE IF Le(variance_pct, Num(30)) THEN Num(40)
               ELSE Max(Num(20), Sub(Num(50), Sub(variance_pct, Num(30))))

calculate_cost_variance_score(c) ==
    LET original == Or(Get(c, "original_amount", Num(0)), Num(0))
        current == Or(Get(c, "current_amount", Num(0)), Num(0))
    IN IF Le(original, Num(0)) THEN Num(50)
       ELSE LET variance_pct == Mul(Div(Sub(current, original), original), Num(100))
            IN IF Le(variance_pct, Num(0)) THEN Num(100)
               ELSE IF Le(variance_pct, Num(5)) THEN Num(95)
               ELSE IF Le(variance_pct, Num(10)) THEN Num(85)
               ELSE IF Le(variance_pct, Num(15)) THEN Num(70)
               ELSE IF Le(variance_pct, Num(20)) THEN Num(55)
               ELSE IF Le(variance_pct, Num(30)) THEN Num(40)
               ELSE Max(Num(20), Sub(Num(40), Sub(variance_pct, Num(30))))

\* the score of an extension of extension_days over original_duration days
ScheduleBand(extension_days, original_duration) ==
    LET extension_pct == Mul(Rat(extension_days, original_duration), Num(100))
    IN IF Le(extension_pct, Num(0)) THEN Num(100)
       ELSE IF Le(extension_pct, Num(5)) THEN Num(90)
       ELSE IF Le(extension_pct, Num(10)) THEN Num(80)
       ELSE IF Le(extension_pct, Num(20)) THEN Num(65)
       ELSE IF Le(extension_pct, Num(30)) THEN Num(50)
       ELSE Max(Num(20), Sub(Num(50), Sub(extension_pct, Num(30))))

\* fault: current_end_date parsed without the fallback to original_end_date
schedule_variance_score_no_default(c) ==
    LET original_end == GetOrNone(c, "original_end_date")
        current_end == GetOrNone(c, "current_end_date")
        start_date == GetOrNone(c, "start_date")
    IN IF ~Truthy(original_end) \/ ~Truthy(start_date) THEN Num(50)
       ELSE LET original_end_dt == fromisoformat10(original_end)
                current_end_dt == fromisoformat10(current_end)
                start_dt == fromisoformat10(start_date)
            IN IF ValueError \in {original_end_dt, current_end_dt, start_dt}
               THEN Num(50)
               ELSE LET original_duration == DaysBetween(original_end_dt, start_dt)
                    IN IF original_duration <= 0 THEN Num(50)
                       ELSE ScheduleBand(DaysBetween(current_end_dt, original_end_dt),
                                         original_duration)

calculate_schedule_variance_score(c) ==
    LET original_end == GetOrNone(c, "original_end_date")
        current_end == GetOrNone(c, "current_end_date")
        start_date == GetOrNone(c, "start_date")
    IN IF ~Truthy(original_end) \/ ~Truthy(start_date) THEN Num(50)
       ELSE LET original_end_dt == fromisoformat10(original_end)
                current_end_dt == fromisoformat10(Or(current_end, original_end))
                start_dt == fromisoformat10(start_date)
            IN IF ValueError \in {original_end_dt, current_end_dt, start_dt}
               THEN Num(50)
               ELSE LET original_duration == DaysBetween(original_end_dt, start_dt)
                    IN IF original_duration <= 0 THEN Num(50)
                       ELSE ScheduleBand(DaysBetween(current_end_dt, original_end_dt),
                                         original_duration)

\* a list argument: milestones is None or List(<<m1, ..., mn>>)
List(items) == [t |-> "list", items |-> items]

IsTrueList(v) == v.t = "list" /\ v.items # <<>>

\* fault: a Completed milestone whose dates do not parse counted as late
MilestoneClass_unparsed_late(m) ==
    LET status == Get(m, "status", Str(""))
        due_date == GetOrNone(m, "due_date")
        completed_date == GetOrNone(m, "completed_date")
    IN IF status = Str("Completed")
       THEN IF Truthy(due_date) /\ Truthy(completed_date)
            THEN LET due == fromisoformat10(due_date)
                     completed == fromisoformat10(completed_date)
                 IN IF due = ValueError \/ completed = ValueError THEN "completed_late"
                    ELSE IF DaysBetween(completed, due) <= 0 THEN "completed_on_time"
                    ELSE "completed_late"
            ELSE "completed_on_time"
       ELSE IF status = Str("Overdue") THEN "overdue"
       ELSE "none"

\* how the loop of calculate_performance_score counts one milestone
MilestoneClass(m) ==
    LET status == Get(m, "status", Str(""))
        due_date == GetOrNone(m, "due_date")
        completed_date == GetOrNone(m, "completed_date")
    IN IF status = Str("Completed")
       THEN IF Truthy(due_date) /\ Truthy(completed_date)
            THEN LET due == fromisoformat10(due_date)
                     completed == fromisoformat10(completed_date)
                 IN IF due = ValueError \/ completed = ValueError THEN "completed_on_time"
                    ELSE IF DaysBetween(completed, due) <= 0 THEN "completed_on_time"
                    ELSE "completed_late"
            ELSE "completed_on_time"
       ELSE IF status = Str("Overdue") THEN "overdue"
       ELSE "none"

CountClass(items, class) ==
    Cardinality({i \in DOMAIN items : MilestoneClass(items[i]) = class})

\* fault: the progress term read from the derived performance_score when it is there
performance_score_compounding(c, ms) ==
    LET base_score ==
            IF IsTrueList(ms)
            THEN LET total == Len(ms.items)
                     on_time_pct ==
                         Mul(Rat(CountClass(ms.items, "completed_on_time"), total), Num(100))
                     late_pct ==
                         Mul(Rat(CountClass(ms.items, "completed_late"), total), Num(100))
                     overdue_pct ==
                         Mul(Rat(CountClass(ms.items, "overdue"), total), Num(100))
                     raw == Sub(Sub(on_time_pct, Mul(late_pct, Rat(3, 10))),
                                Mul(overdue_pct, Rat(5, 10)))
                 IN Max(Num(0), Min(Num(100), raw))
            ELSE Num(50)
        percent_complete ==
            Or(Get(c, "performance_score", Get(c, "percent_complete", Num(0))), Num(0))
    IN Add(Mul(base_score, Rat(7, 10)), Mul(percent_complete, Rat(3, 10)))

calculate_performance_score(c, ms) ==
    LET base_score ==
            IF IsTrueList(ms)
            THEN LET total == Len(ms.items)
                     on_time_pct ==
                         Mul(Rat(CountClass(ms.items, "completed_on_time"), total), Num(100))
                     late_pct ==
                         Mul(Rat(CountClass(ms.items, "completed_late"), total), Num(100))
                     overdue_pct ==
                         Mul(Rat(CountClass(ms.items, "overdue"), total), Num(100))
                     raw == Sub(Sub(on_time_pct, Mul(late_pct, Rat(3, 10))),
                                Mul(overdue_pct, Rat(5, 10)))
                 IN Max(Num(0), Min(Num(100), raw))
            ELSE Num(50)
        percent_complete == Or(Get(c, "percent_complete", Num(0)), Num(0))
    IN Add(Mul(base_score, Rat(7, 10)), Mul(percent_complete, Rat(3, 10)))

\* fault: the four checks chained with elif, so only the first failure is deducted
compliance_score_first_only(c) ==
    LET board_date == GetOrNone(c, "board_approval_date")
        award_date == GetOrNone(c, "award_date")
        amount == Or(Get(c, "current_amount", Num(0)), Num(0))
    IN IF Truthy(GetOrNone(c, "requires_insurance"))
          /\ ~Truthy(GetOrNone(c, "insurance_verified")) THEN Num(80)
       ELSE IF Truthy(GetOrNone(c, "requires_bond"))
          /\ ~Truthy(GetOrNone(c, "bond_verified")) THEN Num(85)
       ELSE IF Truthy(award_date) /\ ~Truthy(board_date) /\ Lt(Num(50000), amount)
       THEN Num(75)
       ELSE IF Truthy(GetOrNone(c, "is_sole_source"))
          /\ ~Truthy(GetOrNone(c, "justification")) THEN Num(85)
       ELSE Num(100)

calculate_compliance_score(c) ==
    LET s0 == Num(100)
        s1 == IF Truthy(GetOrNone(c, "requires_insurance"))
                 /\ ~Truthy(GetOrNone(c, "insurance_verified"))
              THEN Sub(s0, Num(20)) ELSE s0
        s2 == IF Truthy(GetOrNone(c, "requires_bond"))
                 /\ ~Truthy(GetOrNone(c, "bond_verified"))
              THEN Sub(s1, Num(15)) ELSE s1
        board_date == GetOrNone(c, "board_approval_date")
        award_date == GetOrNone(c, "award_date")
        amount == Or(Get(c, "current_amount", Num(0)), Num(0))
        s3 == IF Truthy(award_date) /\ ~Truthy(board_date) /\ Lt(Num(50000), amount)
              THEN Sub(s2, Num(25)) ELSE s2
        s4 == IF Truthy(GetOrNone(c, "is_sole_source"))
                 /\ ~Truthy(GetOrNone(c, "justification"))
              THEN Sub(s3, Num(15)) ELSE s3
    IN Max(Num(0), s4)

calculate_overall_health(c, ms) ==
    LET cost_score == calculate_cost_variance_score(c)
        schedule_score == calculate_schedule_variance_score(c)
        performance_score == calculate_performance_score(c, ms)
        compliance_score == calculate_compliance_score(c)
        health ==
            Add(Add(Add(Mul(cost_score, health_weights.cost_variance),
                        Mul(schedule_score, health_weights.schedule_variance)),
                    Mul(performance_score, health_weights.performance)),
                Mul(compliance_score, health_weights.compliance))
    IN Round1(health)

\* fault: the Critical threshold tested with <= instead of <
determine_risk_level_inclusive(health_score) ==
    IF Le(health_score, risk_thresholds.critical) THEN Str("Critical")
    ELSE IF Lt(health_score, risk_thresholds.high) THEN Str("High")
    ELSE IF Lt(health_score, risk_thresholds.medium) THEN Str("Medium")
    ELSE Str("Low")

determine_risk_level(health_score) ==
    IF Lt(health_score, risk_thresholds.critical) THEN Str("Critical")
    ELSE IF Lt(health_score, risk_thresholds.high) THEN Str("High")
    ELSE IF Lt(health_score, risk_thresholds.medium) THEN Str("Medium")
    ELSE Str("Low")

\* fault: the overall health computed without the milestones (as the batch path does)
score_contract_health_without_milestones(c, ms) ==
    LET c1 == Set(c, "cost_variance_score", calculate_cost_variance_score(c))
        c2 == Set(c1, "schedule_variance_score", calculate_schedule_variance_score(c1))
        c3 == Set(c2, "performance_score", calculate_performance_score(c2, ms))
        c4 == Set(c3, "compliance_score", calculate_compliance_score(c3))
        c5 == Set(c4, "overall_health_score", calculate_overall_health(c4, None))
    IN Set(c5, "risk_level", determine_risk_level(c5["overall_health_score"]))

\* fault: the call also stamps the record's status
score_contract_marking_status(c, ms) ==
    LET c1 == Set(c, "cost_variance_score", calculate_cost_variance_score(c))
        c2 == Set(c1, "schedule_variance_score", calculate_schedule_variance_score(c1))
        c3 == Set(c2, "performance_score", calculate_performance_score(c2, ms))
        c4 == Set(c3, "compliance_score", calculate_compliance_score(c3))
        c5 == Set(c4, "overall_health_score", calculate_overall_health(c4, ms))
        c6 == Set(c5, "risk_level", determine_risk_level(c5["overall_health_score"]))
    IN Set(c6, "status", Str("Scored"))

\* the six assignments in order, each reading the dict the earlier ones wrote
score_contract(c, ms) ==
    LET c1 == Set(c, "cost_variance_score", calculate_cost_variance_score(c))
        c2 == Set(c1, "schedule_variance_score", calculate_schedule_variance_score(c1))
        c3 == Set(c2, "performance_score", calculate_performance_score(c2, ms))
        c4 == Set(c3, "compliance_score", calculate_compliance_score(c3))
        c5 == Set(c4, "overall_health_score", calculate_overall_health(c4, ms))
    IN Set(c5, "risk_level", determine_risk_level(c5["overall_health_score"]))

\* the REAL and INTEGER columns of the contracts table that the engines read
NumericColumns ==
    {"original_amount", "current_amount", "percent_complete", "cost_variance_score",
     "schedule_variance_score", "performance_score", "compliance_score",
     "overall_health_score", "change_order_count", "is_sole_source",
     "requires_insurance", "insurance_verified", "requires_bond", "bond_verified"}

\* pd.read_sql_query: one row per record; a NULL of a numeric column becomes nan
\* when the column holds a number in some row, and stays None in a column of
\* NULLs only
read_sql_query(records) ==
    [i \in DOMAIN records |->
        [k \in DOMAIN records[i] |->
            IF /\ records[i][k] = None
               /\ k \in NumericColumns
               /\ \E j \in DOMAIN records : k \in DOMAIN records[j] /\ IsNum(records[j][k])
            THEN NaN ELSE records[i][k]]]

\* df[column] = values, row by row
SetColumn(df, column, values) == [i \in DOMAIN df |-> Set(df[i], column, values[i])]

\* the rows of the returned table; each lambda gets row.to_dict() of the table
\* as the earlier assignments left it, and no milestones
batch_score_contracts(df) ==
    IF df = <<>> THEN df
    ELSE LET d1 == SetColumn(df, "cost_variance_score",
                       [i \in DOMAIN df |-> calculate_cost_variance_score(df[i])])
             d2 == SetColumn(d1, "schedule_variance_score",
                       [i \in DOMAIN df |-> calculate_schedule_variance_score(d1[i])])
             d3 == SetColumn(d2, "performance_score",
                       [i \in DOMAIN df |-> calculate_performance_score(d2[i], None)])
             d4 == SetColumn(d3, "compliance_score",
                       [i \in DOMAIN df |-> calculate_compliance_score(d3[i])])
             d5 == SetColumn(d4, "overall_health_score",
                       [i \in DOMAIN df |-> calculate_overall_health(d4[i], None)])
         IN SetColumn(d5, "risk_level",
                [i \in DOMAIN df |-> determine_risk_level(d5[i]["overall_health_score"])])

DerivedFields ==
    {"cost_variance_score", "schedule_variance_score", "performance_score",
     "compliance_score", "overall_health_score", "risk_level"}

---------------------------------------------------------------------------
(* VendorScoringEngine *)

RECURSIVE SumFirst(_, _)
SumFirst(nums, n) == IF n = 0 THEN Num(0) ELSE Add(SumFirst(nums, n - 1), nums[n])

\* sum(nums), accumulated left to right from 0
Sum(nums) == SumFirst(nums, Len(nums))

VendorAmount(c) == Or(Get(c, "current_amount", Num(0)), Num(1))
VendorHealth(c) == Get(c, "overall_health_score", Num(50))
VendorWeighted(c) == Mul(VendorHealth(c), VendorAmount(c))

\* fault: the plain mean of the health scores, the contract values ignored
calculate_vendor_score_unweighted(cs) ==
    IF cs = <<>> THEN Num(50)
    ELSE IF \E i \in DOMAIN cs : ~IsNum(VendorHealth(cs[i])) THEN TypeError
    ELSE Round1(Div(Sum([i \in DOMAIN cs |-> VendorHealth(cs[i])]), Num(Len(cs))))

\* health * amount raises TypeError when health is None
calculate_vendor_score(cs) ==
    IF cs = <<>> THEN Num(50)
    ELSE IF \E i \in DOMAIN cs : ~IsNum(VendorHealth(cs[i])) THEN TypeError
    ELSE LET weighted_score == Sum([i \in DOMAIN cs |-> VendorWeighted(cs[i])])
             total_weight == Sum([i \in DOMAIN cs |-> VendorAmount(cs[i])])
         IN IF Lt(Num(0), total_weight)
            THEN Round1(Div(weighted_score, total_weight))
            ELSE Num(50)

MetricsAmount(c) == Or(Get(c, "current_amount", Num(0)), Num(0))
MetricsSchedule(c) == Get(c, "schedule_variance_score", Num(50))
MetricsCost(c) == Get(c, "cost_variance_score", Num(50))

\* fault: the threshold 70 itself excluded
OnTime_above70(c) == Lt(Num(70), MetricsSchedule(c))

OnTime(c) == Ge(MetricsSchedule(c), Num(70))
OnBudget(c) == Ge(MetricsCost(c), Num(70))
IsActive(c) == GetOrNone(c, "status") = Str("Active")
IsCompleted(c) == GetOrNone(c, "status") = Str("Completed")

\* np.mean over a None and None >= 70 raise TypeError
get_vendor_metrics(cs) ==
    IF cs = <<>>
    THEN [total_contracts |-> Num(0), total_value |-> Num(0),
          avg_health_score |-> Num(50), on_time_rate |-> Num(0),
          budget_adherence_rate |-> Num(0), active_contracts |-> Num(0),
          completed_contracts |-> Num(0)]
    ELSE IF \E i \in DOMAIN cs :
                \/ ~IsNum(VendorHealth(cs[i]))
                \/ ~IsNum(MetricsSchedule(cs[i]))
                \/ ~IsNum(MetricsCost(cs[i]))
    THEN TypeError
    ELSE LET total_value == Sum([i \in DOMAIN cs |-> MetricsAmount(cs[i])])
             avg_health == Div(Sum([i \in DOMAIN cs |-> VendorHealth(cs[i])]), Num(Len(cs)))
             on_time == Cardinality({i \in DOMAIN cs : OnTime(cs[i])})
             on_budget == Cardinality({i \in DOMAIN cs : OnBudget(cs[i])})
         IN [total_contracts |-> Num(Len(cs)), total_value |-> total_value,
             avg_health_score |-> Round1(avg_health),
             on_time_rate |-> Round1(Mul(Rat(on_time, Len(cs)), Num(100))),
             budget_adherence_rate |-> Round1(Mul(Rat(on_budget, Len(cs)), Num(100))),
             active_contracts |-> Num(Cardinality({i \in DOMAIN cs : IsActive(cs[i])})),
             completed_contracts |-> Num(Cardinality({i \in DOMAIN cs : IsCompleted(cs[i])}))]

---------------------------------------------------------------------------
(* AlertGenerator *)

Bool(b) == [t |-> "bool", b |-> b]

\* seconds after midnight of the time part that follows the date in str(v)[:19];
\* -1 when the part is not a time
TimeOfDay(tail) ==
    CASE tail = "" -> 0
      [] tail = " 09:30:00" -> 34200
      [] tail = "T12:00:00" -> 43200
      [] tail = "T12:00:00.250000" -> 43200
      [] OTHER -> -1

\* datetime.fromisoformat(str(v)[:19])
fromisoformat19(v) ==
    IF fromisoformat10(v) = ValueError \/ TimeOfDay(v.tail) < 0 THEN ValueError
    ELSE [t |-> "datetime", y |-> v.y, m |-> v.m, d |-> v.d, secs |-> TimeOfDay(v.tail)]

\* datetime.now() at secs seconds after midnight of the day y-m-d
DateTime(y, m, d, secs) == [t |-> "datetime", y |-> y, m |-> m, d |-> d, secs |-> secs]

SecondsOf(dt) == IF "secs" \in DOMAIN dt THEN dt.secs ELSE 0

\* (a - b).days: whole days of the difference, rounded towards minus infinity
TimedeltaDays(a, b) ==
    DaysBetween(a, b) + ((SecondsOf(a) - SecondsOf(b)) \div 86400)

alert_rules ==
    << [id |-> "cost_overrun_warning", name |-> "Cost Overrun Warning", severity |-> "High"],
       [id |-> "cost_overrun_critical", name |-> "Critical Cost Overrun", severity |-> "Critical"],
       [id |-> "schedule_delay_warning", name |-> "Schedule Delay Warning", severity |-> "Medium"],
       [id |-> "schedule_delay_critical", name |-> "Critical Schedule Delay", severity |-> "High"],
       [id |-> "expiring_soon", name |-> "Contract Expiring Soon", severity |-> "Medium"],
       [id |-> "insurance_expired", name |-> "Insurance Not Verified", severity |-> "High"],
       [id |-> "low_health_score", name |-> "Low Health Score", severity |-> "High"],
       [id |-> "multiple_change_orders", name |-> "Excessive Change Orders", severity |-> "Medium"],
       [id |-> "no_activity", name |-> "No Recent Activity", severity |-> "Low"] >>

\* fault: the upper limit of the band included
_cost_overrun_inclusive_max(c, min_pct, max_pct) ==
    LET original == Or(Get(c, "original_amount", Num(0)), Num(0))
        current == Or(Get(c, "current_amount", Num(0)), Num(0))
    IN IF ~IsNum(original) THEN TypeError
       ELSE IF Le(original, Num(0)) THEN Bool(FALSE)
       ELSE IF ~IsNum(current) THEN TypeError
       ELSE LET variance_pct == Mul(Div(Sub(current, original), original), Num(100))
            IN Bool(Le(Num(min_pct), variance_pct) /\ Le(variance_pct, Num(max_pct)))

\* original <= 0 and current - original raise TypeError on a str
_cost_overrun(c, min_pct, max_pct) ==
    LET original == Or(Get(c, "original_amount", Num(0)), Num(0))
        current == Or(Get(c, "current_amount", Num(0)), Num(0))
    IN IF ~IsNum(original) THEN TypeError
       ELSE IF Le(original, Num(0)) THEN Bool(FALSE)
       ELSE IF ~IsNum(current) THEN TypeError
       ELSE LET variance_pct == Mul(Div(Sub(current, original), original), Num(100))
            IN Bool(Le(Num(min_pct), variance_pct) /\ Lt(variance_pct, Num(max_pct)))

_schedule_delay(c, min_pct, max_pct) ==
    LET original_end == GetOrNone(c, "original_end_date")
        current_end == GetOrNone(c, "current_end_date")
        start_date == GetOrNone(c, "start_date")
    IN IF ~Truthy(original_end) \/ ~Truthy(start_date) THEN Bool(FALSE)
       ELSE LET original_end_dt == fromisoformat10(original_end)
                current_end_dt == fromisoformat10(Or(current_end, original_end))
                start_dt == fromisoformat10(start_date)
            IN IF ValueError \in {original_end_dt, current_end_dt, start_dt} THEN Bool(FALSE)
               ELSE LET original_duration == DaysBetween(original_end_dt, start_dt)
                        extension_days == DaysBetween(current_end_dt, original_end_dt)
                    IN IF original_duration <= 0 THEN Bool(FALSE)
                       ELSE LET extension_pct ==
                                    Mul(Rat(extension_days, original_duration), Num(100))
                            IN Bool(Le(Num(min_pct), extension_pct)
                                    /\ Lt(extension_pct, Num(max_pct)))

\* the end date is midnight of its day; now carries the time of day
_expiring_soon(c, days, now) ==
    LET end_date == Or(GetOrNone(c, "current_end_date"), GetOrNone(c, "original_end_date"))
    IN IF ~Truthy(end_date) THEN Bool(FALSE)
       ELSE LET end_dt == fromisoformat10(end_date)
            IN IF end_dt = ValueError THEN Bool(FALSE)
               ELSE LET days_until == TimedeltaDays(end_dt, now)
                    IN Bool(0 < days_until /\ days_until <= days)

_no_recent_activity(c, days, now) ==
    LET updated == GetOrNone(c, "updated_at")
    IN IF ~Truthy(updated) THEN Bool(FALSE)
       ELSE LET updated_dt == fromisoformat19(updated)
            IN IF updated_dt = ValueError THEN Bool(FALSE)
               ELSE LET days_since == TimedeltaDays(now, updated_dt)
                    IN Bool(days_since > days /\ GetOrNone(c, "status") = Str("Active"))

\* c.get('requires_insurance') and not c.get('insurance_verified')
InsuranceNotVerified(c) ==
    IF Truthy(GetOrNone(c, "requires_insurance"))
    THEN Bool(~Truthy(GetOrNone(c, "insurance_verified")))
    ELSE GetOrNone(c, "requires_insurance")

\* (c.get('overall_health_score', 100) or 100) < 50
LowHealthScore(c) ==
    LET score == Or(Get(c, "overall_health_score", Num(100)), Num(100))
    IN IF IsNum(score) THEN Bool(Lt(score, Num(50))) ELSE TypeError

\* (c.get('change_order_count', 0) or 0) >= 3
MultipleChangeOrders(c) ==
    LET count == Or(Get(c, "change_order_count", Num(0)), Num(0))
    IN IF IsNum(count) THEN Bool(Ge(count, Num(3))) ELSE TypeError

\* rule['condition'](contract): the value returned, or the exception raised
Condition(rule_id, c, now) ==
    CASE rule_id = "cost_overrun_warning" -> _cost_overrun(c, 10, 20)
      [] rule_id = "cost_overrun_critical" -> _cost_overrun(c, 20, 100)
      [] rule_id = "schedule_delay_warning" -> _schedule_delay(c, 10, 20)
      [] rule_id = "schedule_delay_critical" -> _schedule_delay(c, 20, 100)
      [] rule_id = "expiring_soon" -> _expiring_soon(c, 30, now)
      [] rule_id = "insurance_expired" -> InsuranceNotVerified(c)
      [] rule_id = "low_health_score" -> LowHealthScore(c)
      [] rule_id = "multiple_change_orders" -> MultipleChangeOrders(c)
      [] rule_id = "no_activity" -> _no_recent_activity(c, 60, now)

IsException(v) == v \in {TypeError, ValueError}

\* f"{v}" of a contract_id
Format(v) ==
    CASE v.t = "str" -> v.s
      [] v.t = "None" -> "None"
      [] v.t = "num" -> ToString(v.n)

\* fault: the alert_id without the rule id
Alert_id_without_rule(c, rule, now) ==
    [alert_id |-> Format(GetOrNone(c, "contract_id")),
     contract_id |-> GetOrNone(c, "contract_id"),
     contract_title |-> GetOrNone(c, "title"),
     vendor_name |-> GetOrNone(c, "vendor_name"),
     alert_type |-> rule.id, title |-> rule.name, severity |-> rule.severity,
     generated_at |-> now]

Alert(c, rule, now) ==
    [alert_id |-> Format(GetOrNone(c, "contract_id")) \o "_" \o rule.id,
     contract_id |-> GetOrNone(c, "contract_id"),
     contract_title |-> GetOrNone(c, "title"),
     vendor_name |-> GetOrNone(c, "vendor_name"),
     alert_type |-> rule.id, title |-> rule.name, severity |-> rule.severity,
     generated_at |-> now]

\* fault: the try around the whole rule loop, so that a raise ends the contract
RECURSIVE RuleAlerts_raise_ends_contract(_, _, _)
RuleAlerts_raise_ends_contract(c, now, k) ==
    IF k = 0 THEN <<>>
    ELSE LET rest == RuleAlerts_raise_ends_contract(c, now, k - 1)
         IN IF \E j \in 1..k : IsException(Condition(alert_rules[j].id, c, now)) THEN rest
            ELSE IF Truthy(Condition(alert_rules[k].id, c, now))
            THEN Append(rest, Alert(c, alert_rules[k], now))
            ELSE rest

\* the alerts appended for contract c by the first k rules: a raise is logged
\* and the rule skipped
RECURSIVE RuleAlerts(_, _, _)
RuleAlerts(c, now, k) ==
    IF k = 0 THEN <<>>
    ELSE LET rest == RuleAlerts(c, now, k - 1)
             v == Condition(alert_rules[k].id, c, now)
         IN IF IsException(v) THEN rest
            ELSE IF Truthy(v) THEN Append(rest, Alert(c, alert_rules[k], now))
            ELSE rest

\* the alerts list after the loop over the first n contracts
RECURSIVE GeneratedAlerts(_, _, _)
GeneratedAlerts(cs, now, n) ==
    IF n = 0 THEN <<>>
    ELSE GeneratedAlerts(cs, now, n - 1) \o RuleAlerts(cs[n], now, Len(alert_rules))

\* severity_order.get(severity, 4)
SeverityRank(severity) ==
    CASE severity = "Critical" -> 0
      [] severity = "High" -> 1
      [] severity = "Medium" -> 2
      [] severity = "Low" -> 3
      [] OTHER -> 4

\* fault: an unstable sort that puts an alert before those of its own severity
InsertAlert_before_equal(sorted, a) ==
    LET p == Cardinality({i \in DOMAIN sorted :
                             SeverityRank(sorted[i].severity) < SeverityRank(a.severity)})
    IN SubSeq(sorted, 1, p) \o <<a>> \o SubSeq(sorted, p + 1, Len(sorted))

\* one step of the stable sort: a goes after every alert whose rank is not greater
InsertAlert(sorted, a) ==
    LET p == Cardinality({i \in DOMAIN sorted :
                             SeverityRank(sorted[i].severity) <= SeverityRank(a.severity)})
    IN SubSeq(sorted, 1, p) \o <<a>> \o SubSeq(sorted, p + 1, Len(sorted))

\* alerts.sort(key=...) over the first n alerts
RECURSIVE SortAlerts(_, _)
SortAlerts(alerts, n) ==
    IF n = 0 THEN <<>> ELSE InsertAlert(SortAlerts(alerts, n - 1), alerts[n])

generate_alerts(cs, now) ==
    LET alerts == GeneratedAlerts(cs, now, Len(cs))
    IN SortAlerts(alerts, Len(alerts))

---------------------------------------------------------------------------
(* BenchmarkingEngine *)

\* the benchmark table: kpi_id -> definition (the descriptions left out)
COUPA_BENCHMARKS ==
    ("increase_visibility_managed_spend" :> [name |-> "Increase in Visibility of Managed Spend", category |-> "spend_analysis",
        benchmark_value |-> Rat(122, 5), unit |-> "percent", direction |-> "higher",
        importance |-> "high"]) @@
    ("supplier_info_mgmt_cycle_time" :> [name |-> "Supplier Information Management Cycle Time", category |-> "supplier_management",
        benchmark_value |-> Rat(33, 5), unit |-> "business_hours", direction |-> "lower",
        importance |-> "medium"]) @@
    ("spend_with_primary_suppliers" :> [name |-> "Spend with Primary Suppliers", category |-> "supplier_management",
        benchmark_value |-> Rat(35, 2), unit |-> "percent", direction |-> "higher",
        importance |-> "medium"]) @@
    ("contract_mgmt_cycle_time" :> [name |-> "Contract Management Cycle Time", category |-> "source_to_contract",
        benchmark_value |-> Rat(113, 10), unit |-> "business_days", direction |-> "lower",
        importance |-> "high"]) @@
    ("on_contract_spend" :> [name |-> "On-Contract Spend", category |-> "source_to_contract",
        benchmark_value |-> Rat(811, 10), unit |-> "percent", direction |-> "higher",
        importance |-> "high"]) @@
    ("structured_spend" :> [name |-> "Structured Spend", category |-> "procurement",
        benchmark_value |-> Rat(553, 10), unit |-> "percent", direction |-> "higher",
        importance |-> "high"]) @@
    ("pre_approved_spend" :> [name |-> "Pre-Approved Spend", category |-> "procurement",
        benchmark_value |-> Rat(482, 5), unit |-> "percent", direction |-> "higher",
        importance |-> "critical"]) @@
    ("electronic_po_processing" :> [name |-> "Electronic PO Processing Rate", category |-> "procurement",
        benchmark_value |-> Rat(494, 5), unit |-> "percent", direction |-> "higher",
        importance |-> "medium"]) @@
    ("requisition_to_order_cycle_time" :> [name |-> "Requisition-to-Order Cycle Time", category |-> "procurement",
        benchmark_value |-> Rat(4, 1), unit |-> "business_hours", direction |-> "lower",
        importance |-> "high"]) @@
    ("touchless_cash_reconciliation" :> [name |-> "Touchless Cash Flow Reconciliation", category |-> "cash_liquidity",
        benchmark_value |-> Rat(9997, 100), unit |-> "percent", direction |-> "higher",
        importance |-> "medium"]) @@
    ("cash_concentration_index" :> [name |-> "Cash Concentration Index", category |-> "cash_liquidity",
        benchmark_value |-> Rat(76, 1), unit |-> "percent", direction |-> "higher",
        importance |-> "medium"]) @@
    ("electronic_invoice_processing" :> [name |-> "Electronic Invoice Processing Rate", category |-> "e_invoicing",
        benchmark_value |-> Rat(431, 5), unit |-> "percent", direction |-> "higher",
        importance |-> "high"]) @@
    ("invoice_approval_cycle_time" :> [name |-> "Invoice Approval Cycle Time", category |-> "e_invoicing",
        benchmark_value |-> Rat(21, 2), unit |-> "business_hours", direction |-> "lower",
        importance |-> "high"]) @@
    ("first_time_match_rate" :> [name |-> "First-Time Match Rate", category |-> "e_invoicing",
        benchmark_value |-> Rat(971, 10), unit |-> "percent", direction |-> "higher",
        importance |-> "high"]) @@
    ("expense_report_approval_cycle_time" :> [name |-> "Expense Report Approval Cycle Time", category |-> "expenses",
        benchmark_value |-> Rat(15, 2), unit |-> "business_hours", direction |-> "lower",
        importance |-> "medium"]) @@
    ("expense_lines_within_policy" :> [name |-> "Expense Lines Within Policy", category |-> "expenses",
        benchmark_value |-> Rat(989, 10), unit |-> "percent", direction |-> "higher",
        importance |-> "high"]) @@
    ("invoices_paid_digitally" :> [name |-> "Invoices Paid Digitally", category |-> "payments",
        benchmark_value |-> Rat(96, 1), unit |-> "percent", direction |-> "higher",
        importance |-> "medium"]) @@
    ("suppliers_using_digital_payments" :> [name |-> "Suppliers Using Digital Payments", category |-> "payments",
        benchmark_value |-> Rat(481, 5), unit |-> "percent", direction |-> "higher",
        importance |-> "medium"]) @@
    ("payment_batch_approval_cycle_time" :> [name |-> "Payment Batch Approval Cycle Time", category |-> "payments",
        benchmark_value |-> Rat(21, 5), unit |-> "business_hours", direction |-> "lower",
        importance |-> "medium"])

ZeroDivisionError == [t |-> "ZeroDivisionError"]
KeyError == [t |-> "KeyError"]

\* round(x, 2)
Round2(x) ==
    LET q == (100 * x.n) \div x.d
        r == (100 * x.n) - q * x.d
        k == IF 2 * r < x.d THEN q
             ELSE IF 2 * r > x.d THEN q + 1
             ELSE IF q % 2 = 0 THEN q ELSE q + 1
    IN Rat(k, 100)

\* the score before rounding, or the exception the arithmetic raises
KpiRawScore(actual_value, benchmark, direction, gap_percent) ==
    IF direction = "higher"
    THEN IF Ge(actual_value, benchmark)
         THEN Min(Num(100), Add(Num(100), Mul(gap_percent, Rat(1, 10))))
         ELSE IF benchmark = Num(0) THEN ZeroDivisionError
         ELSE Max(Num(0), Mul(Div(actual_value, benchmark), Num(100)))
    ELSE IF Le(actual_value, benchmark)
         THEN Min(Num(100), Add(Num(100), Mul(gap_percent, Rat(1, 10))))
         ELSE IF Lt(Num(0), actual_value)
         THEN Max(Num(0), Mul(Div(benchmark, actual_value), Num(100)))
         ELSE Num(0)

KpiRating(score) ==
    IF Ge(score, Num(90)) THEN "Excellent"
    ELSE IF Ge(score, Num(75)) THEN "Good"
    ELSE IF Ge(score, Num(60)) THEN "Fair"
    ELSE IF Ge(score, Num(40)) THEN "Poor"
    ELSE "Critical"

\* the recommendation: which sentence, and the gap it prints with one decimal
_generate_recommendation(kpi_id, actual, benchmark, direction, rating) ==
    IF rating \in {"Excellent", "Good"} THEN [sentence |-> "maintain"]
    ELSE IF direction = "higher"
    THEN [sentence |-> "increase", gap |-> Round1(Sub(benchmark, actual))]
    ELSE [sentence |-> "reduce", gap |-> Round1(Sub(actual, benchmark))]

\* fault: the table indexed without the membership test
score_kpi_unchecked_key(kpi_id, actual_value) ==
    IF kpi_id \notin DOMAIN COUPA_BENCHMARKS THEN KeyError
    ELSE LET kpi == COUPA_BENCHMARKS[kpi_id]
             benchmark == kpi.benchmark_value
             direction == kpi.direction
             gap == IF direction = "higher" THEN Sub(actual_value, benchmark)
                    ELSE Sub(benchmark, actual_value)
             gap_percent == IF Lt(Num(0), benchmark)
                            THEN Mul(Div(gap, benchmark), Num(100)) ELSE Num(0)
             score == KpiRawScore(actual_value, benchmark, direction, gap_percent)
         IN IF score = ZeroDivisionError THEN ZeroDivisionError
            ELSE [t |-> "KPIScore", kpi_id |-> kpi_id, name |-> kpi.name,
                  category |-> kpi.category, actual_value |-> actual_value,
                  benchmark_value |-> benchmark, unit |-> kpi.unit, direction |-> direction,
                  score |-> Round1(score), gap |-> Round2(gap),
                  gap_percent |-> Round1(gap_percent), rating |-> KpiRating(score),
                  recommendation |-> _generate_recommendation(kpi_id, actual_value, benchmark,
                                                              direction, KpiRating(score))]

\* fault: the bonus for exceeding the benchmark left uncapped
score_kpi_uncapped(kpi_id, actual_value) ==
    IF kpi_id \notin DOMAIN COUPA_BENCHMARKS THEN ValueError
    ELSE LET kpi == COUPA_BENCHMARKS[kpi_id]
             benchmark == kpi.benchmark_value
             direction == kpi.direction
             gap == IF direction = "higher" THEN Sub(actual_value, benchmark)
                    ELSE Sub(benchmark, actual_value)
             gap_percent == IF Lt(Num(0), benchmark)
                            THEN Mul(Div(gap, benchmark), Num(100)) ELSE Num(0)
             capped == KpiRawScore(actual_value, benchmark, direction, gap_percent)
             score == IF capped = Num(100)
                      THEN Add(Num(100), Mul(gap_percent, Rat(1, 10))) ELSE capped
         IN IF score = ZeroDivisionError THEN ZeroDivisionError
            ELSE [t |-> "KPIScore", kpi_id |-> kpi_id, name |-> kpi.name,
                  category |-> kpi.category, actual_value |-> actual_value,
                  benchmark_value |-> benchmark, unit |-> kpi.unit, direction |-> direction,
                  score |-> Round1(score), gap |-> Round2(gap),
                  gap_percent |-> Round1(gap_percent), rating |-> KpiRating(score),
                  recommendation |-> _generate_recommendation(kpi_id, actual_value, benchmark,
                                                              direction, KpiRating(score))]

score_kpi(kpi_id, actual_value) ==
    IF kpi_id \notin DOMAIN COUPA_BENCHMARKS THEN ValueError
    ELSE LET kpi == COUPA_BENCHMARKS[kpi_id]
             benchmark == kpi.benchmark_value
             direction == kpi.direction
             gap == IF direction = "higher" THEN Sub(actual_value, benchmark)
                    ELSE Sub(benchmark, actual_value)
             gap_percent == IF Lt(Num(0), benchmark)
                            THEN Mul(Div(gap, benchmark), Num(100)) ELSE Num(0)
             score == KpiRawScore(actual_value, benchmark, direction, gap_percent)
         IN IF score = ZeroDivisionError THEN ZeroDivisionError
            ELSE [t |-> "KPIScore", kpi_id |-> kpi_id, name |-> kpi.name,
                  category |-> kpi.category, actual_value |-> actual_value,
                  benchmark_value |-> benchmark, unit |-> kpi.unit, direction |-> direction,
                  score |-> Round1(score), gap |-> Round2(gap),
                  gap_percent |-> Round1(gap_percent), rating |-> KpiRating(score),
                  recommendation |-> _generate_recommendation(kpi_id, actual_value, benchmark,
                                                              direction, KpiRating(score))]

\* the keys of COUPA_BENCHMARKS in the order of the table
KpiOrder ==
    << "increase_visibility_managed_spend", "supplier_info_mgmt_cycle_time",
       "spend_with_primary_suppliers", "contract_mgmt_cycle_time",
       "on_contract_spend", "structured_spend",
       "pre_approved_spend", "electronic_po_processing",
       "requisition_to_order_cycle_time", "touchless_cash_reconciliation",
       "cash_concentration_index", "electronic_invoice_processing",
       "invoice_approval_cycle_time", "first_time_match_rate",
       "expense_report_approval_cycle_time", "expense_lines_within_policy",
       "invoices_paid_digitally", "suppliers_using_digital_payments",
       "payment_batch_approval_cycle_time" >>

BENCHMARK_CATEGORIES ==
    ("spend_analysis" :> "Spend Analysis") @@
    ("supplier_management" :> "Supplier Risk & Performance Management") @@
    ("source_to_contract" :> "Source-to-Contract") @@
    ("procurement" :> "Procurement") @@
    ("cash_liquidity" :> "Cash & Liquidity Management") @@
    ("e_invoicing" :> "E-Invoicing") @@
    ("expenses" :> "Expenses") @@
    ("payments" :> "Payments")

\* the keys of BENCHMARK_CATEGORIES in the order of the table
CategoryOrder ==
    << "spend_analysis", "supplier_management", "source_to_contract",
       "procurement", "cash_liquidity", "e_invoicing",
       "expenses", "payments" >>

IMPORTANCE_WEIGHTS ==
    [critical |-> Num(2), high |-> Rat(3, 2), medium |-> Num(1), low |-> Rat(1, 2)]

\* the KPIScores of the first n KPIs of the table that belong to the category
\* and are keys of kpi_values
RECURSIVE CategoryKpiScores(_, _, _)
CategoryKpiScores(category_id, values, n) ==
    IF n = 0 THEN <<>>
    ELSE LET rest == CategoryKpiScores(category_id, values, n - 1)
             kpi_id == KpiOrder[n]
         IN IF COUPA_BENCHMARKS[kpi_id].category = category_id /\ kpi_id \in DOMAIN values
            THEN Append(rest, score_kpi(kpi_id, values[kpi_id]))
            ELSE rest

\* importance_weights.get(benchmarks[kpi_id].get('importance', 'medium'), 1.0)
KpiWeight(kpi_id) ==
    LET importance == COUPA_BENCHMARKS[kpi_id].importance
    IN IF importance \in DOMAIN IMPORTANCE_WEIGHTS THEN IMPORTANCE_WEIGHTS[importance]
       ELSE Num(1)

\* the names of the scores whose rating is one of ratings, in list order
RECURSIVE NamesRated(_, _, _)
NamesRated(kpi_scores, ratings, n) ==
    IF n = 0 THEN <<>>
    ELSE IF kpi_scores[n].rating \in ratings
    THEN Append(NamesRated(kpi_scores, ratings, n - 1), kpi_scores[n].name)
    ELSE NamesRated(kpi_scores, ratings, n - 1)

\* fault: the plain mean of the KPI scores, the importance ignored
CategoryScoreOf_unweighted(category_id, kpi_scores) ==
    LET weighted_sum == Sum([i \in DOMAIN kpi_scores |-> kpi_scores[i].score])
        total_weight == Num(Len(kpi_scores))
        category_score == IF Lt(Num(0), total_weight) THEN Div(weighted_sum, total_weight)
                          ELSE Num(0)
    IN [t |-> "CategoryScore", category_id |-> category_id,
        category_name |-> IF category_id \in DOMAIN BENCHMARK_CATEGORIES
                          THEN BENCHMARK_CATEGORIES[category_id] ELSE category_id,
        score |-> Round1(category_score), kpi_scores |-> kpi_scores,
        strengths |-> NamesRated(kpi_scores, {"Excellent", "Good"}, Len(kpi_scores)),
        improvement_areas |-> NamesRated(kpi_scores, {"Poor", "Critical"}, Len(kpi_scores))]

\* the CategoryScore built from the KPI scores of the category
CategoryScoreOf(category_id, kpi_scores) ==
    LET weighted_sum == Sum([i \in DOMAIN kpi_scores |->
                                Mul(kpi_scores[i].score, KpiWeight(kpi_scores[i].kpi_id))])
        total_weight == Sum([i \in DOMAIN kpi_scores |-> KpiWeight(kpi_scores[i].kpi_id)])
        category_score == IF Lt(Num(0), total_weight) THEN Div(weighted_sum, total_weight)
                          ELSE Num(0)
    IN [t |-> "CategoryScore", category_id |-> category_id,
        category_name |-> IF category_id \in DOMAIN BENCHMARK_CATEGORIES
                          THEN BENCHMARK_CATEGORIES[category_id] ELSE category_id,
        score |-> Round1(category_score), kpi_scores |-> kpi_scores,
        strengths |-> NamesRated(kpi_scores, {"Excellent", "Good"}, Len(kpi_scores)),
        improvement_areas |-> NamesRated(kpi_scores, {"Poor", "Critical"}, Len(kpi_scores))]

score_category_unweighted(category_id, values) ==
    CategoryScoreOf_unweighted(category_id, CategoryKpiScores(category_id, values, Len(KpiOrder)))

score_category(category_id, values) ==
    CategoryScoreOf(category_id, CategoryKpiScores(category_id, values, Len(KpiOrder)))

\* category_weights of calculate_health_score
category_weights ==
    [spend_analysis |-> Num(1), supplier_management |-> Num(1),
     source_to_contract |-> Rat(3, 2), procurement |-> Num(2),
     cash_liquidity |-> Rat(4, 5), e_invoicing |-> Rat(6, 5),
     expenses |-> Rat(4, 5), payments |-> Num(1)]

\* category_weights.get(cat_id, 1.0)
CategoryWeight(cat_id) ==
    IF cat_id \in DOMAIN category_weights THEN category_weights[cat_id] ELSE Num(1)

\* all_kpi_scores: the kpi_scores of the first n categories, one after another
RECURSIVE AllKpiScores(_, _)
AllKpiScores(category_scores, n) ==
    IF n = 0 THEN <<>>
    ELSE AllKpiScores(category_scores, n - 1) \o category_scores[CategoryOrder[n]].kpi_scores

\* fault: a category without data enters the mean with its score 0
OverallScore_counts_empty_categories(category_scores) ==
    LET weighted_sum == Sum([i \in DOMAIN CategoryOrder |->
              Mul(category_scores[CategoryOrder[i]].score, CategoryWeight(CategoryOrder[i]))])
        total_weight == Sum([i \in DOMAIN CategoryOrder |-> CategoryWeight(CategoryOrder[i])])
    IN IF Lt(Num(0), total_weight) THEN Div(weighted_sum, total_weight) ELSE Num(0)

\* overall_score before rounding: the loop over category_scores.items()
OverallScore(category_scores) ==
    LET HasData(i) == category_scores[CategoryOrder[i]].kpi_scores # <<>>
        weighted_sum == Sum([i \in DOMAIN CategoryOrder |->
              IF HasData(i)
              THEN Mul(category_scores[CategoryOrder[i]].score, CategoryWeight(CategoryOrder[i]))
              ELSE Num(0)])
        total_weight == Sum([i \in DOMAIN CategoryOrder |->
              IF HasData(i) THEN CategoryWeight(CategoryOrder[i]) ELSE Num(0)])
    IN IF Lt(Num(0), total_weight) THEN Div(weighted_sum, total_weight) ELSE Num(0)

\* grade and rating of an overall score
HealthGrade(overall_score) ==
    IF Ge(overall_score, Num(90)) THEN [grade |-> "A", rating |-> "Excellent"]
    ELSE IF Ge(overall_score, Num(80)) THEN [grade |-> "B", rating |-> "Good"]
    ELSE IF Ge(overall_score, Num(70)) THEN [grade |-> "C", rating |-> "Fair"]
    ELSE IF Ge(overall_score, Num(60)) THEN [grade |-> "D", rating |-> "Poor"]
    ELSE [grade |-> "F", rating |-> "Critical"]

\* sorted(all_kpi_scores, key=lambda x: x.score, reverse=True): the sort is
\* stable, so an element stands behind every element of a greater score and
\* behind the elements of equal score that came before it
SortedScores(list) ==
    LET Position(i) ==
            1 + Cardinality({j \in DOMAIN list :
                                \/ Lt(list[i].score, list[j].score)
                                \/ list[j].score = list[i].score /\ j < i})
    IN [p \in DOMAIN list |-> list[CHOOSE i \in DOMAIN list : Position(i) = p]]

\* round(x): format(x, '.0f'), an exact tie going to the even integer
Round0(x) ==
    LET q == x.n \div x.d
        r == x.n - q * x.d
        k == IF 2 * r < x.d THEN q
             ELSE IF 2 * r > x.d THEN q + 1
             ELSE IF q % 2 = 0 THEN q ELSE q + 1
    IN Num(k)

\* f"{s.name}: {s.score:.0f}/100" for the scores rated Excellent or Good
StrengthLines(scores) ==
    LET IsStrength(s) == s.rating \in {"Excellent", "Good"}
        strengths == SelectSeq(scores, IsStrength)
    IN [i \in DOMAIN strengths |->
           [name |-> strengths[i].name, score |-> Round0(strengths[i].score)]]

\* f"{s.name}: {s.recommendation}" for the scores rated Poor or Critical
ImprovementLines(scores) ==
    LET IsWeak(s) == s.rating \in {"Poor", "Critical"}
        weak == SelectSeq(scores, IsWeak)
    IN [i \in DOMAIN weak |->
           [name |-> weak[i].name, recommendation |-> weak[i].recommendation]]

\* list[:n]
FirstN(list, n) == SubSeq(list, 1, IF Len(list) < n THEN Len(list) ELSE n)

\* bool(peer_data) for None or a dict
DictTruthy(d) == "t" \notin DOMAIN d /\ DOMAIN d # {}

\* list.sort(reverse=True) on numbers: position p holds the value that has
\* fewer than p greater values and at least p values not smaller
SortDescending(list) ==
    [p \in DOMAIN list |->
        CHOOSE v \in {list[i] : i \in DOMAIN list} :
            /\ Cardinality({j \in DOMAIN list : Lt(v, list[j])}) < p
            /\ Cardinality({j \in DOMAIN list : Le(v, list[j])}) >= p]

\* list.index(x) + 1 for an x that is in the list
IndexOf(list, x) == CHOOSE i \in DOMAIN list : list[i] = x /\ \A j \in 1..(i - 1) : list[j] # x

\* peer_data['scores'] after peer_scores.append(score); peer_scores.sort(reverse=True)
PeerScoresAfter(score, pd) == SortDescending(Append(pd["scores"], score))

_calculate_peer_comparison(score, pd) ==
    LET peer_scores == Get(pd, "scores", <<>>)
    IN IF peer_scores = <<>> THEN EmptyDict
       ELSE LET sorted == PeerScoresAfter(score, pd)
                rank == IndexOf(sorted, score)
                len == Len(sorted)
                average == Div(Sum(sorted), Num(len))
            IN [rank |-> rank,
                total_peers |-> len,
                percentile |-> Round1(Mul(Rat(len - rank, len), Num(100))),
                peer_average |-> Round1(average),
                peer_median |-> Round1(sorted[(len \div 2) + 1]),
                vs_average |-> Round1(Sub(score, average))]

\* category_scores: one CategoryScore per category
CategoryScores(values) == [c \in DOMAIN BENCHMARK_CATEGORIES |-> score_category(c, values)]

\* overall_score of calculate_health_score, before it is rounded
HealthOverallScore(values) == OverallScore(CategoryScores(values))

\* the dict peer_data refers to after calculate_health_score(kpi_values, peer_data)
PeerDataAfter(values, pd) ==
    IF DictTruthy(pd) /\ Get(pd, "scores", <<>>) # <<>>
    THEN Set(pd, "scores", PeerScoresAfter(HealthOverallScore(values), pd))
    ELSE pd

\* the ProcurementHealthScore built from the category scores
HealthScoreOf(category_scores, all_kpi_scores, overall_score, sorted_scores, pd, now) ==
    [t |-> "ProcurementHealthScore",
     overall_score |-> Round1(overall_score),
     grade |-> HealthGrade(overall_score).grade,
     rating |-> HealthGrade(overall_score).rating,
     category_scores |-> category_scores,
     top_strengths |-> StrengthLines(FirstN(sorted_scores, 5)),
     priority_improvements |-> FirstN(ImprovementLines(sorted_scores), 5),
     peer_comparison |-> IF DictTruthy(pd) THEN _calculate_peer_comparison(overall_score, pd)
                         ELSE EmptyDict,
     calculated_at |-> now]

HealthScoreFrom(category_scores, all_kpi_scores, pd, now) ==
    HealthScoreOf(category_scores, all_kpi_scores, OverallScore(category_scores),
                  SortedScores(all_kpi_scores), pd, now)

calculate_health_score(values, pd, now) ==
    HealthScoreFrom(CategoryScores(values),
                    AllKpiScores(CategoryScores(values), Len(CategoryOrder)), pd, now)

---------------------------------------------------------------------------
(* Bounds and inputs *)

MaxCalls == 2        \* score_contract calls made on one contract
MaxTenths == 1000    \* health scores 0.0 .. MaxTenths/10 given to determine_risk_level
MaxAmount == 40      \* small amounts -1 .. MaxAmount
MaxMilestones == 3   \* length of a milestone list
MaxContracts == 2    \* length of a vendor's contract list
MaxAlertContracts == 2  \* length of the contract list given to generate_alerts
MaxHealthKpis == 6   \* the first KPIs of HealthKpis that kpi_values may give a value
MaxPeerKpis == 2     \* the same, in the runs that pass peer_data
MaxRows == 2         \* rows of the contracts table

\* a key that is not in the dict
Missing == [t |-> "missing"]

\* the dict of the fields whose value is not Missing
MakeDict(fields) == [k \in {x \in DOMAIN fields : fields[x] # Missing} |-> fields[k]]

Date(y, m, d) == IsoStr(y, m, d, "")

\* a contract with every raw field present and nothing to deduct
BaseFields ==
    [contract_id |-> Str("C-001"), status |-> Str("Active"),
     original_amount |-> Num(100), current_amount |-> Num(100),
     start_date |-> Date(2024, 1, 1), original_end_date |-> Date(2024, 4, 10),
     current_end_date |-> Date(2024, 4, 10), percent_complete |-> Num(50),
     requires_insurance |-> Num(1), insurance_verified |-> Num(1),
     requires_bond |-> Num(0), bond_verified |-> Num(0),
     award_date |-> Date(2023, 12, 1), board_approval_date |-> Date(2023, 12, 15),
     is_sole_source |-> Num(0), justification |-> None]

BaseContract == MakeDict(BaseFields)

AmountInputs ==
    {Missing, None} \cup {Num(i) : i \in -1..MaxAmount}
        \cup {Num(50000), Num(50001), Num(100000), Num(112000), Num(125000)}

CostContracts(base) ==
    {MakeDict([original_amount |-> o, current_amount |-> c] @@ base) :
        o \in AmountInputs, c \in AmountInputs}

NotADate == {Missing, None, Str(""), Str("TBD")}

StartDateInputs ==
    NotADate \cup {Date(2024, 1, 1), IsoStr(2024, 1, 1, "T08:00:00"), Date(2023, 2, 29),
                   Date(2024, 4, 10), Date(2024, 7, 2)}

OriginalEndInputs ==
    NotADate \cup {Date(2024, 4, 10), IsoStr(2024, 4, 10, " 17:00:00"), Date(2024, 7, 1),
                   Date(2024, 2, 30), Date(2024, 1, 1)}

\* days of the months March to September 2024 (some not in the calendar), a later year
CurrentEndInputs ==
    NotADate \cup {Date(2024, m, d) : m \in 3..9, d \in {0, 1, 9, 10, 11, 15, 20, 30, 31}}
        \cup {Date(2025, 1, 1), IsoStr(2024, 8, 15, "T00:00:00")}

ScheduleContracts(base) ==
    {MakeDict([start_date |-> s, original_end_date |-> o, current_end_date |-> e] @@ base) :
        s \in StartDateInputs, o \in OriginalEndInputs, e \in CurrentEndInputs}

CompletedMilestone(due, done) ==
    MakeDict([status |-> Str("Completed"), due_date |-> due, completed_date |-> done])

OpenMilestone(st) ==
    MakeDict([status |-> st, due_date |-> Date(2024, 3, 1), completed_date |-> None])

MilestoneInputs ==
    {CompletedMilestone(Date(2024, 3, 1), done) :
        done \in {Missing, Str("TBD"), Date(2024, 2, 20), Date(2024, 3, 2),
                  IsoStr(2024, 3, 1, "T23:59:59")}}
    \cup {CompletedMilestone(None, Date(2024, 3, 2)),
          CompletedMilestone(Date(2024, 2, 30), Date(2024, 3, 2))}
    \cup {OpenMilestone(st) : st \in {Missing, Str("Overdue"), Str("Pending")}}

RECURSIVE SeqsUpTo(_, _)
\* the sequences over S of length at most n
SeqsUpTo(S, n) ==
    IF n = 0 THEN {<<>>}
    ELSE LET shorter == SeqsUpTo(S, n - 1)
         IN shorter \cup {Append(q, x) : q \in shorter, x \in S}

MilestoneLists(n) == {None} \cup {List(q) : q \in SeqsUpTo(MilestoneInputs, n)}

PerformanceContracts(base) ==
    {MakeDict([percent_complete |-> p] @@ base) :
        p \in {Missing, None, Num(0), Num(25), Num(100)}}

InsuranceInputs ==
    {[requires_insurance |-> r, insurance_verified |-> v] :
        r \in {Missing, None, Num(0), Num(1)}, v \in {Missing, Num(0), Num(1)}}

BondInputs ==
    {[requires_bond |-> r, bond_verified |-> v] :
        r \in {Num(0), Num(1)}, v \in {None, Num(0), Num(1)}}

ApprovalInputs ==
    {[award_date |-> aw, board_approval_date |-> bd, current_amount |-> am] :
        aw \in {Missing, Date(2023, 12, 1)}, bd \in {Missing, Str(""), Date(2023, 12, 15)},
        am \in {Missing, None, Num(50000), Num(50001)}}

SoleSourceInputs ==
    {[is_sole_source |-> ss, justification |-> ju] :
        ss \in {Missing, Num(0), Num(1)}, ju \in {None, Str(""), Str("emergency repair")}}

ComplianceContracts(base) ==
    {MakeDict(ins @@ bond @@ appr @@ sole @@ base) :
        ins \in InsuranceInputs, bond \in BondInputs, appr \in ApprovalInputs,
        sole \in SoleSourceInputs}

\* derived fields left in a record by an earlier scoring of other raw values
StaleDerived ==
    [cost_variance_score |-> Num(95), schedule_variance_score |-> Num(20),
     performance_score |-> Num(99), compliance_score |-> Num(0),
     overall_health_score |-> Rat(123, 10), risk_level |-> Str("Low")]

NoDerived == [k \in DerivedFields |-> Missing]

MixedDates ==
    {[start_date |-> Missing, original_end_date |-> Missing, current_end_date |-> Missing],
     [start_date |-> Date(2024, 1, 1), original_end_date |-> Date(2024, 7, 1),
      current_end_date |-> None],
     [start_date |-> Date(2024, 1, 1), original_end_date |-> Date(2024, 7, 1),
      current_end_date |-> Date(2024, 8, 15)],
     [start_date |-> Date(2024, 1, 1), original_end_date |-> Date(2024, 7, 1),
      current_end_date |-> Date(2024, 9, 1)],
     [start_date |-> Date(2024, 1, 1), original_end_date |-> Date(2024, 4, 10),
      current_end_date |-> Date(2025, 1, 1)]}

MixedFlags ==
    {[requires_insurance |-> Num(1), insurance_verified |-> Num(1)],
     [requires_insurance |-> Num(1), insurance_verified |-> Num(0)],
     [requires_insurance |-> Num(1), insurance_verified |-> None,
      requires_bond |-> Num(1), bond_verified |-> Missing,
      board_approval_date |-> Missing, is_sole_source |-> Num(1)]}

MixedContracts(base) ==
    {MakeDict(derived @@ [original_amount |-> o, current_amount |-> c,
                          percent_complete |-> p] @@ dates @@ flags @@ base) :
        o \in {Missing, None, Num(100)},
        c \in {None, Num(100), Num(112), Num(137), Num(60000)},
        p \in {Missing, Num(0), Num(55), Num(100)},
        dates \in MixedDates, flags \in MixedFlags, derived \in {NoDerived, StaleDerived}}

OnTimeMilestone == CompletedMilestone(Date(2024, 3, 1), Date(2024, 2, 20))
LateMilestone == CompletedMilestone(Date(2024, 3, 1), Date(2024, 3, 2))

MixedMilestones ==
    {None, List(<<>>), List(<<OnTimeMilestone>>),
     List(<<LateMilestone, OpenMilestone(Str("Overdue"))>>),
     List(<<OnTimeMilestone, LateMilestone, OpenMilestone(Str("Pending"))>>)}

\* contracts as the record store hands them to the vendor engine
VendorContractInputs ==
    {MakeDict([contract_id |-> Str("C-001"), current_amount |-> am,
               overall_health_score |-> h]) :
        am \in {Missing, None, Num(0), Num(100), Num(900)},
        h \in {Missing, None, Num(40), Num(80)}}
    \cup {MakeDict([contract_id |-> Str("C-002"), current_amount |-> Num(100),
                    overall_health_score |-> Rat(615, 10), status |-> st,
                    schedule_variance_score |-> sv, cost_variance_score |-> Num(70)]) :
            st \in {Missing, Str("Active"), Str("Completed")},
            sv \in {Missing, None, Num(70)}}
    \cup {MakeDict([contract_id |-> Str("C-003"), current_amount |-> Num(100),
                    overall_health_score |-> Num(80), status |-> Str("Draft"),
                    schedule_variance_score |-> Num(65), cost_variance_score |-> cv]) :
            cv \in {Missing, None, Rat(699, 10)}}

VendorContractLists(n) == SeqsUpTo(VendorContractInputs, n)

\* a contract that triggers no alert on 2024-06-01
AlertBaseFields ==
    [contract_id |-> Str("C-001"), title |-> Str("Road resurfacing"),
     vendor_name |-> Str("Acme Paving"),
     original_amount |-> Num(100), current_amount |-> Num(100),
     start_date |-> Date(2024, 1, 1), original_end_date |-> Date(2024, 12, 31),
     current_end_date |-> Missing,
     requires_insurance |-> Num(0), insurance_verified |-> Num(0),
     overall_health_score |-> Num(80), change_order_count |-> Num(0),
     updated_at |-> IsoStr(2024, 5, 30, " 09:30:00"), status |-> Str("Active")]

\* the instants at which generate_alerts runs: midnight and noon of 2024-06-01
NowInputs == {DateTime(2024, 6, 1, 0), DateTime(2024, 6, 1, 43200)}

\* base with the fields of changes replacing its own
With(changes, base) == MakeDict(changes @@ base)

AlertAmountInputs(base) ==
    {With([contract_id |-> Str("C-001"), original_amount |-> o, current_amount |-> c], base) :
        o \in {Missing, None, Num(0), Num(100), Str("abc")},
        c \in {Missing, None, Str("abc")}
              \cup {Num(k) : k \in {100, 109, 110, 119, 120, 125, 199, 200, 250}}}
    \cup {With([contract_id |-> Str("C-001"), original_amount |-> Num(100000),
                current_amount |-> Num(125000)], base)}

AlertHealthInputs(base) ==
    {With([contract_id |-> Str("C-002"), overall_health_score |-> h], base) :
        h \in {Missing, None, Num(0), Num(30), Rat(499, 10), Num(50), Str("n/a")}}

AlertExpiryInputs(base) ==
    {With([contract_id |-> Str("C-003"), current_end_date |-> c, original_end_date |-> o], base) :
        c \in {Missing, None, Str("TBD"), Date(2024, 5, 31), Date(2024, 6, 1),
               Date(2024, 6, 2), Date(2024, 7, 1), Date(2024, 7, 2)},
        o \in {Missing, Date(2024, 6, 15), Date(2024, 12, 31)}}

\* 100 days planned, extended by 9, 10, 19, 20, 99 and 100 days
AlertScheduleInputs(base) ==
    {With([contract_id |-> Str("C-004"), original_end_date |-> Date(2024, 4, 10),
           current_end_date |-> c], base) :
        c \in {Date(2024, 4, 19), Date(2024, 4, 20), Date(2024, 4, 29),
               Date(2024, 4, 30), Date(2024, 7, 18), Date(2024, 7, 19)}}

AlertFlagInputs(base) ==
    {With([contract_id |-> Str("C-005"), requires_insurance |-> r, insurance_verified |-> v], base) :
        r \in {Missing, Num(0), Num(1)}, v \in {Missing, Num(0), Num(1)}}
    \cup {With([contract_id |-> Str("C-005"), change_order_count |-> n], base) :
            n \in {Missing, None, Num(2), Num(3), Str("many")}}
    \cup {With([contract_id |-> Str("C-005"), updated_at |-> u, status |-> st], base) :
            u \in {Missing, Str("never"), IsoStr(2024, 3, 31, ""),
                   IsoStr(2024, 4, 1, "T12:00:00"), IsoStr(2024, 4, 1, "T12:00:00.250000")},
            st \in {Str("Active"), Str("Completed")}}

\* one-contract lists for the rule conditions
AlertRuleLists(base) ==
    {<<c>> : c \in AlertAmountInputs(base) \cup AlertHealthInputs(base)
                   \cup AlertExpiryInputs(base) \cup AlertScheduleInputs(base)
                   \cup AlertFlagInputs(base)}

\* contracts that trigger several rules of different severities, some of them
\* with a field that makes a condition raise
AlertMixInputs(base) ==
    {With([contract_id |-> id, original_amount |-> o, current_amount |-> Num(125),
           overall_health_score |-> h, change_order_count |-> Num(3), updated_at |-> u], base) :
        id \in {Str("C-006"), Str("C-007")},
        o \in {Num(100), Str("abc")},
        h \in {Num(80), Num(30), Str("n/a")},
        u \in {IsoStr(2024, 5, 30, " 09:30:00"), IsoStr(2024, 3, 1, "")}}
    \cup {With([contract_id |-> Missing, requires_insurance |-> Num(1)], base),
          With([contract_id |-> Str("C-008")], base)}

AlertContractLists(base, n) == SeqsUpTo(AlertMixInputs(base), n)

\* kpi ids given to score_kpi: the keys of the table and three that are not keys
KpiIdInputs ==
    DOMAIN COUPA_BENCHMARKS \cup {"unknown_kpi", "", "On_Contract_Spend"}

\* actual values around a benchmark value: 0, negative, equal, just below and
\* above, half, double and far above; 21.95 and 21.96 are 89.96% and 90.0% of
\* the benchmark 24.4
ActualInputs(benchmark) ==
    {Num(0), Num(-5), Num(999), Rat(2195, 100), Rat(2196, 100), benchmark,
     Sub(benchmark, Rat(1, 100)), Add(benchmark, Rat(1, 100)), Add(benchmark, Rat(3, 1000)),
     Div(benchmark, Num(2)), Mul(benchmark, Num(2))}

\* the actual values tried for a kpi id
ActualInputsFor(kpi_id) ==
    IF kpi_id \in DOMAIN COUPA_BENCHMARKS
    THEN ActualInputs(COUPA_BENCHMARKS[kpi_id].benchmark_value)
    ELSE ActualInputs(Num(50))

\* the KPIs given values in kpi_values: three of procurement (critical, high,
\* medium), two of source_to_contract (one of them lower-is-better), one of
\* spend_analysis and one of cash_liquidity; the other categories stay unobserved
HealthKpis ==
    << "pre_approved_spend", "structured_spend", "electronic_po_processing",
       "on_contract_spend", "contract_mgmt_cycle_time",
       "increase_visibility_managed_spend", "cash_concentration_index" >>

\* the actual value at which the KPI performs at share (0 < share <= 1) of its benchmark
AtShare(kpi_id, share) ==
    IF COUPA_BENCHMARKS[kpi_id].direction = "higher"
    THEN Mul(COUPA_BENCHMARKS[kpi_id].benchmark_value, share)
    ELSE Div(COUPA_BENCHMARKS[kpi_id].benchmark_value, share)

\* the i-th KPI of HealthKpis at a low level (15%, 20%, ... of the benchmark) or
\* at a high one (99%, 98%, ...), so that no two KPIs score the same
LevelValue(i, level) ==
    IF level = "low" THEN AtShare(HealthKpis[i], Rat(10 + 5 * i, 100))
    ELSE AtShare(HealthKpis[i], Rat(100 - i, 100))

\* every dict that gives some of the first n KPIs of HealthKpis a low or a high value
KpiValueDicts(n) ==
    UNION {{[k \in {HealthKpis[i] : i \in S} |->
                LevelValue(CHOOSE i \in S : HealthKpis[i] = k, level[CHOOSE i \in S : HealthKpis[i] = k])]
            : level \in [S -> {"low", "high"}]} : S \in SUBSET (1..n)}

\* dicts at a band edge, with a key that is no KPI, and with a Fair value
EdgeValueDicts ==
    {("increase_visibility_managed_spend" :> Rat(2196, 100)) @@
         ("cash_concentration_index" :> Rat(683, 10)),
     ("unknown_kpi" :> Num(50)) @@ ("on_contract_spend" :> Rat(811, 10)),
     ("unknown_kpi" :> Num(50)),
     ("pre_approved_spend" :> AtShare("pre_approved_spend", Rat(70, 100))) @@
         ("invoices_paid_digitally" :> AtShare("invoices_paid_digitally", Rat(60, 100)))}

KpiValueInputs(n) == KpiValueDicts(n) \cup EdgeValueDicts

\* peer_data: absent, empty, without scores, with an empty list, and with lists
\* that make the combined list even and odd in length
PeerDataInputs ==
    {None, EmptyDict,
     ("source" :> Str("survey")),
     ("scores" :> <<>>),
     ("scores" :> <<Num(70), Num(80), Num(95)>>),
     ("scores" :> <<Num(100), Num(60)>>) @@ ("source" :> Str("survey"))}

\* category ids given to score_category: the keys of the table and one that is not
CategoryIdInputs == DOMAIN BENCHMARK_CATEGORIES \cup {"unknown_category"}


\* the mixed records, records that lose compliance points although their
\* insurance is verified or not required, and records at the lowest cost,
\* schedule and compliance scores whose percent_complete is below zero (the
\* contracts API stores the JSON it is sent as it is)
ConsistencyContracts(base) ==
    MixedContracts(base) \cup
    {MakeDict([original_amount |-> Num(100), current_amount |-> Num(60000),
               percent_complete |-> p] @@ dates @@ flags @@ base) :
        p \in {Rat(-2133, 10), Num(-300)}, dates \in MixedDates, flags \in MixedFlags} \cup
    {MakeDict([requires_insurance |-> i, insurance_verified |-> Num(1),
               requires_bond |-> Num(1), bond_verified |-> Num(0),
               is_sole_source |-> Num(1), current_amount |-> c] @@ base) :
        i \in {Num(0), Num(1)}, c \in {Num(100), Num(137), Num(60000)}}

\* records with and without derived fields, with the scoring fields only and
\* with display fields the scoring never reads
FrameContracts ==
    {MakeDict(derived @@ flags @@ base) :
        derived \in {NoDerived, StaleDerived}, flags \in MixedFlags,
        base \in {BaseFields, AlertBaseFields}}

\* the derived columns of a contract that was never scored
NullDerived == [k \in DerivedFields |-> None]

\* stored contracts: amounts and percent_complete present or NULL, the derived
\* columns NULL or holding stale scores
StoredContracts ==
    {MakeDict(derived @@ [original_amount |-> o, current_amount |-> c,
                          percent_complete |-> p] @@ BaseFields) :
        o \in {None, Num(100)}, c \in {None, Num(100), Num(137)},
        p \in {None, Num(0), Num(55)}, derived \in {NullDerived, StaleDerived}}

StoredTables(n) == SeqsUpTo(StoredContracts, n)

NoResult == [op |-> "none"]

---------------------------------------------------------------------------
(* Initial states: one family of inputs per specification *)

InitWith(cs, ms, lists) ==
    /\ contract \in cs
    /\ milestones \in ms
    /\ prev = None
    /\ calls = 0
    /\ contracts \in lists
    /\ kpi_values = EmptyDict
    /\ peer_data = None
    /\ result = NoResult

Init == InitWith(MixedContracts(BaseFields), MixedMilestones, {<<>>})
InitRisk == InitWith({BaseContract}, {None}, {<<>>})
InitCost == InitWith(CostContracts(BaseFields), {None}, {<<>>})
InitSchedule == InitWith(ScheduleContracts(BaseFields), {None}, {<<>>})
InitPerformance ==
    InitWith(PerformanceContracts(BaseFields), MilestoneLists(MaxMilestones), {<<>>})
InitCompliance == InitWith(ComplianceContracts(BaseFields), {None}, {<<>>})
InitVendor == InitWith({BaseContract}, {None}, VendorContractLists(MaxContracts))
InitKpi == InitWith({BaseContract}, {None}, {<<>>})
InitBatch == InitWith({BaseContract}, {None}, StoredTables(MaxRows))
InitFrame ==
    InitWith(FrameContracts, MixedMilestones,
             VendorContractLists(1) \cup AlertContractLists(AlertBaseFields, 1))
InitConsistency == InitWith(ConsistencyContracts(BaseFields), MixedMilestones, {<<>>})

InitCategory ==
    /\ contract = BaseContract /\ milestones = None
    /\ prev = None /\ calls = 0 /\ contracts = <<>> /\ result = NoResult
    /\ kpi_values \in KpiValueInputs(MaxHealthKpis)
    /\ peer_data = None

InitHealth ==
    /\ contract = BaseContract /\ milestones = None
    /\ prev = None /\ calls = 0 /\ contracts = <<>> /\ result = NoResult
    /\ \/ kpi_values \in KpiValueInputs(MaxHealthKpis) /\ peer_data = None
       \/ kpi_values \in KpiValueInputs(MaxPeerKpis) /\ peer_data \in PeerDataInputs
InitAlertRules == InitWith({BaseContract}, {None}, AlertRuleLists(AlertBaseFields))
InitAlerts ==
    InitWith({BaseContract}, {None}, AlertContractLists(AlertBaseFields, MaxAlertContracts))

---------------------------------------------------------------------------
(* Actions *)

\* contract = contract_scorer.score_contract(contract, milestones)
ScoreContract ==
    /\ calls < MaxCalls
    /\ prev' = contract
    /\ contract' = score_contract(contract, milestones)
    /\ calls' = calls + 1
    /\ UNCHANGED <<milestones, contracts, kpi_values, peer_data, result>>

\* contract_scorer.determine_risk_level(health_score)
DetermineRiskLevel ==
    /\ \E k \in 0..MaxTenths :
          result' = [op |-> "determine_risk_level", health_score |-> Rat(k, 10),
                     ret |-> determine_risk_level(Rat(k, 10))]
    /\ UNCHANGED <<contract, milestones, prev, calls, contracts, kpi_values, peer_data>>

\* vendor_scorer.calculate_vendor_score(vendor, contracts)
CalculateVendorScore ==
    /\ result' = [op |-> "calculate_vendor_score", ret |-> calculate_vendor_score(contracts)]
    /\ UNCHANGED <<contract, milestones, prev, calls, contracts, kpi_values, peer_data>>

\* vendor_scorer.get_vendor_metrics(vendor, contracts)
GetVendorMetrics ==
    /\ result' = [op |-> "get_vendor_metrics", ret |-> get_vendor_metrics(contracts)]
    /\ UNCHANGED <<contract, milestones, prev, calls, contracts, kpi_values, peer_data>>

\* alert_generator.generate_alerts(contracts), datetime.now() being now throughout
GenerateAlerts ==
    /\ \E now \in NowInputs :
          result' = [op |-> "generate_alerts", now |-> now,
                     ret |-> generate_alerts(contracts, now)]
    /\ UNCHANGED <<contract, milestones, prev, calls, contracts, kpi_values, peer_data>>

\* alert_generator.generate_alerts([contract]) on the record score_contract returned
GenerateAlertsOnScored ==
    /\ calls >= 1
    /\ \E now \in NowInputs :
          result' = [op |-> "generate_alerts_on_scored", now |-> now,
                     ret |-> generate_alerts(<<contract>>, now)]
    /\ UNCHANGED <<contract, milestones, prev, calls, contracts, kpi_values, peer_data>>

\* load_data: df = db.get_all_contracts(), then
\* contract_scorer.batch_score_contracts(df); df_after is df after the call
BatchScoreContracts ==
    /\ LET df == read_sql_query(contracts)
       IN result' = [op |-> "batch_score_contracts", df |-> df, df_after |-> df,
                     ret |-> batch_score_contracts(df)]
    /\ UNCHANGED <<contract, milestones, prev, calls, contracts, kpi_values, peer_data>>

\* engine.score_kpi(kpi_id, actual_value)
ScoreKpi ==
    /\ \E kpi_id \in KpiIdInputs : \E actual_value \in ActualInputsFor(kpi_id) :
          result' = [op |-> "score_kpi", kpi_id |-> kpi_id, actual_value |-> actual_value,
                     ret |-> score_kpi(kpi_id, actual_value)]
    /\ UNCHANGED <<contract, milestones, prev, calls, contracts, kpi_values, peer_data>>

ScoreCategory ==
    /\ \E category_id \in CategoryIdInputs :
          result' = [op |-> "score_category", category_id |-> category_id,
                     ret |-> score_category(category_id, kpi_values)]
    /\ UNCHANGED <<contract, milestones, prev, calls, contracts, kpi_values, peer_data>>

\* health = engine.calculate_health_score(kpi_values, peer_data), the same two
\* objects passed again on a later call
CalculateHealthScore ==
    /\ calls < MaxCalls
    /\ \E now \in NowInputs :
          result' = [op |-> "calculate_health_score", peer_data |-> peer_data,
                     ret |-> calculate_health_score(kpi_values, peer_data, now)]
    /\ peer_data' = PeerDataAfter(kpi_values, peer_data)
    /\ calls' = calls + 1
    /\ UNCHANGED <<contract, milestones, prev, contracts, kpi_values>>

NextVendor == ScoreContract \/ CalculateVendorScore \/ GetVendorMetrics

Spec == Init /\ [][ScoreContract]_vars
SpecRisk == InitRisk /\ [][DetermineRiskLevel]_vars
SpecCost == InitCost /\ [][ScoreContract]_vars
SpecSchedule == InitSchedule /\ [][ScoreContract]_vars
SpecPerformance == InitPerformance /\ [][ScoreContract]_vars
SpecCompliance == InitCompliance /\ [][ScoreContract]_vars
SpecVendor == InitVendor /\ [][NextVendor]_vars
SpecAlertRules == InitAlertRules /\ [][GenerateAlerts]_vars
SpecAlerts == InitAlerts /\ [][GenerateAlerts]_vars
SpecKpi == InitKpi /\ [][ScoreKpi]_vars
SpecBatch == InitBatch /\ [][BatchScoreContracts]_vars
NextFrame == ScoreContract \/ CalculateVendorScore \/ GetVendorMetrics \/ GenerateAlerts
SpecFrame == InitFrame /\ [][NextFrame]_vars
SpecConsistency == InitConsistency /\ [][ScoreContract \/ GenerateAlertsOnScored]_vars
SpecCategory == InitCategory /\ [][ScoreCategory]_vars
SpecHealth == InitHealth /\ [][CalculateHealthScore]_vars

---------------------------------------------------------------------------
(* Properties *)

Between(lo, x, hi) == Le(lo, x) /\ Lt(x, hi)

RiskCalled == result.op = "determine_risk_level"

\* C1: determine_risk_level puts every health score in exactly one tier:
\* Critical below 30, High in [30, 50), Medium in [50, 70), Low from 70 up;
\* 29.9 is Critical, 30 and 49.9 are High, 50 and 69.9 are Medium, 70 is Low.
C1_RiskTiers ==
    RiskCalled =>
        LET h == result.health_score
            r == result.ret
        IN /\ r \in {Str("Critical"), Str("High"), Str("Medium"), Str("Low")}
           /\ (r = Str("Critical")) <=> Lt(h, Num(30))
           /\ (r = Str("High")) <=> Between(Num(30), h, Num(50))
           /\ (r = Str("Medium")) <=> Between(Num(50), h, Num(70))
           /\ (r = Str("Low")) <=> Le(Num(70), h)
           /\ h = Rat(299, 10) => r = Str("Critical")
           /\ h \in {Num(30), Rat(499, 10)} => r = Str("High")
           /\ h \in {Num(50), Rat(699, 10)} => r = Str("Medium")
           /\ h = Num(70) => r = Str("Low")

C1_Witness ==
    RiskCalled /\ result.health_score = Num(30) /\ result.ret = Str("High")

Scored == calls >= 1

\* C2: score_contract is idempotent: a second call on the record the first call
\* returned, with the same milestones, leaves the six derived fields as they were,
\* and they are what scoring the record without any derived field gives.
C2_Idempotent ==
    /\ calls >= 2 => \A k \in DerivedFields : contract[k] = prev[k]
    /\ Scored =>
          LET raw == [k \in DOMAIN contract \ DerivedFields |-> contract[k]]
          IN \A k \in DerivedFields : contract[k] = score_contract(raw, milestones)[k]

C2_Witness ==
    /\ calls = 2
    /\ IsTrueList(milestones)
    /\ contract["risk_level"] = Str("Critical")
    /\ Get(contract, "percent_complete", Num(0)) = Num(55)

\* the number in a field, 0 when the key is missing or the value is null
NumberOr0(c, key) == IF key \in DOMAIN c /\ IsNum(c[key]) THEN c[key] ELSE Num(0)

\* the step function of the cost score as the specification tabulates it
CostReference(c) ==
    LET original == NumberOr0(c, "original_amount")
        current == NumberOr0(c, "current_amount")
        v == Rat((current.n * original.d - original.n * current.d) * 100,
                 original.n * current.d)
    IN CASE ~Lt(Num(0), original) -> Num(50)
         [] Lt(Num(0), original) /\ Le(v, Num(0)) -> Num(100)
         [] Lt(Num(0), original) /\ Lt(Num(0), v) /\ Le(v, Num(5)) -> Num(95)
         [] Lt(Num(0), original) /\ Lt(Num(5), v) /\ Le(v, Num(10)) -> Num(85)
         [] Lt(Num(0), original) /\ Lt(Num(10), v) /\ Le(v, Num(15)) -> Num(70)
         [] Lt(Num(0), original) /\ Lt(Num(15), v) /\ Le(v, Num(20)) -> Num(55)
         [] Lt(Num(0), original) /\ Lt(Num(20), v) /\ Le(v, Num(30)) -> Num(40)
         [] Lt(Num(0), original) /\ Lt(Num(30), v) /\ Le(v, Num(50)) -> Sub(Num(70), v)
         [] Lt(Num(0), original) /\ Lt(Num(50), v) -> Num(20)

C4_CostMonotone ==
    (Scored /\ Lt(Num(0), NumberOr0(contract, "original_amount"))) =>
        \A b \in AmountInputs :
            (IsNum(b) /\ Le(NumberOr0(contract, "current_amount"), b)) =>
                Le(calculate_cost_variance_score(Set(contract, "current_amount", b)),
                   contract["cost_variance_score"])

\* 30% scores 40 on the last step and 35% scores 35 on the linear tail
C4_Witness ==
    /\ Scored
    /\ GetOrNone(contract, "original_amount") = Num(20)
    /\ GetOrNone(contract, "current_amount") = Num(26)
    /\ contract["cost_variance_score"] = Num(40)
    /\ calculate_cost_variance_score(Set(contract, "current_amount", Num(27))) = Num(35)

\* a field holds a calendar date (a time part after it is ignored)
HoldsDate(c, key) == Truthy(GetOrNone(c, key)) /\ fromisoformat10(c[key]) # ValueError

DayOf(c, key) == LET dt == fromisoformat10(c[key]) IN ToOrdinal(dt.y, dt.m, dt.d)

\* the schedule score as the specification states it
ScheduleReference(c) ==
    LET end_key == IF Truthy(GetOrNone(c, "current_end_date"))
                   THEN "current_end_date" ELSE "original_end_date"
    IN IF ~Truthy(GetOrNone(c, "start_date")) \/ ~Truthy(GetOrNone(c, "original_end_date"))
       THEN Num(50)
       ELSE IF \E k \in {"start_date", "original_end_date", end_key} : ~HoldsDate(c, k)
       THEN Num(50)
       ELSE IF DayOf(c, "original_end_date") - DayOf(c, "start_date") <= 0 THEN Num(50)
       ELSE LET p == Rat((DayOf(c, end_key) - DayOf(c, "original_end_date")) * 100,
                         DayOf(c, "original_end_date") - DayOf(c, "start_date"))
            IN CASE Le(p, Num(0)) -> Num(100)
                 [] Lt(Num(0), p) /\ Le(p, Num(5)) -> Num(90)
                 [] Lt(Num(5), p) /\ Le(p, Num(10)) -> Num(80)
                 [] Lt(Num(10), p) /\ Le(p, Num(20)) -> Num(65)
                 [] Lt(Num(20), p) /\ Le(p, Num(30)) -> Num(50)
                 [] Lt(Num(30), p) /\ Le(p, Num(60)) -> Sub(Num(80), p)
                 [] Lt(Num(60), p) -> Num(20)

\* the example of the specification: 2024-01-01 to 2024-07-01, extended to 2024-08-15
ScheduleExample ==
    /\ Scored
    /\ GetOrNone(contract, "start_date") = Date(2024, 1, 1)
    /\ GetOrNone(contract, "original_end_date") = Date(2024, 7, 1)
    /\ GetOrNone(contract, "current_end_date") = Date(2024, 8, 15)

ScheduleMatchesReference ==
    Scored => contract["schedule_variance_score"] = ScheduleReference(contract)

IsLate(m) ==
    /\ GetOrNone(m, "status") = Str("Completed")
    /\ HoldsDate(m, "due_date") /\ HoldsDate(m, "completed_date")
    /\ DayOf(m, "completed_date") > DayOf(m, "due_date")

IsOnTime(m) == GetOrNone(m, "status") = Str("Completed") /\ ~IsLate(m)

IsOverdue(m) == GetOrNone(m, "status") = Str("Overdue")

LateCount(items) == Cardinality({i \in 1..Len(items) : IsLate(items[i])})
OnTimeCount(items) == Cardinality({i \in 1..Len(items) : IsOnTime(items[i])})
OverdueCount(items) == Cardinality({i \in 1..Len(items) : IsOverdue(items[i])})

\* the performance score as the specification states it
PerformanceReference(c, ms) ==
    LET n == IF ms = None THEN 0 ELSE Len(ms.items)
        raw == Rat(100 * OnTimeCount(ms.items) - 30 * LateCount(ms.items)
                     - 50 * OverdueCount(ms.items), n)
        base == IF n = 0 THEN Num(50)
                ELSE IF Lt(raw, Num(0)) THEN Num(0)
                ELSE IF Lt(Num(100), raw) THEN Num(100)
                ELSE raw
        progress == NumberOr0(c, "percent_complete")
    IN Rat(7 * base.n * progress.d + 3 * progress.n * base.d, 10 * base.d * progress.d)

\* C6: the performance score written by score_contract is
\* 0.7*base + 0.3*percent_complete, base being 50 without milestones and else
\* on_time_pct - 0.3*late_pct - 0.5*overdue_pct clamped to [0, 100], over all milestones.
C6_PerformanceBlend ==
    Scored => contract["performance_score"] = PerformanceReference(contract, milestones)

\* one late, one overdue and one on-time milestone at 25% complete: 73/6
C6_Witness ==
    /\ Scored
    /\ IsTrueList(milestones)
    /\ Len(milestones.items) = 3
    /\ LateCount(milestones.items) = 1
    /\ OverdueCount(milestones.items) = 1
    /\ \E i \in 1..3 : /\ GetOrNone(milestones.items[i], "completed_date") = Str("TBD")
                       /\ IsOnTime(milestones.items[i])
    /\ GetOrNone(contract, "percent_complete") = Num(25)
    /\ contract["performance_score"] = Rat(73, 6)

Flag(c, key) == Truthy(GetOrNone(c, key))

Deduction(applies, points) == IF applies THEN points ELSE 0

\* the compliance score as the specification states it
ComplianceReference(c) ==
    LET total ==
            Deduction(Flag(c, "requires_insurance") /\ ~Flag(c, "insurance_verified"), 20)
            + Deduction(Flag(c, "requires_bond") /\ ~Flag(c, "bond_verified"), 15)
            + Deduction(Flag(c, "award_date") /\ ~Flag(c, "board_approval_date")
                           /\ Lt(Num(50000), NumberOr0(c, "current_amount")), 25)
            + Deduction(Flag(c, "is_sole_source") /\ ~Flag(c, "justification"), 15)
    IN IF total > 100 THEN Num(0) ELSE Num(100 - total)

\* C7: the compliance score written by score_contract is 100 minus the sum of
\* the deductions that apply (20 insurance, 15 bond, 25 board approval, 15 sole
\* source), each applying regardless of the others; insurance alone gives 80.
C7_ComplianceDeductions ==
    Scored =>
        /\ contract["compliance_score"] = ComplianceReference(contract)
        /\ ( /\ Flag(contract, "requires_insurance") /\ ~Flag(contract, "insurance_verified")
             /\ ~Flag(contract, "requires_bond")
             /\ Flag(contract, "board_approval_date")
             /\ ~Flag(contract, "is_sole_source") )
           => contract["compliance_score"] = Num(80)

\* all four deductions at once: 100 - 75
C7_Witness ==
    /\ Scored
    /\ Flag(contract, "requires_insurance") /\ ~Flag(contract, "insurance_verified")
    /\ Flag(contract, "requires_bond") /\ ~Flag(contract, "bond_verified")
    /\ Flag(contract, "award_date") /\ ~Flag(contract, "board_approval_date")
    /\ Flag(contract, "is_sole_source") /\ ~Flag(contract, "justification")
    /\ contract["compliance_score"] = Num(25)

\* cost*0.30 + schedule*0.25 + performance*0.25 + compliance*0.20 over stored scores
StoredWeightedSum(c) ==
    Add(Add(Mul(c["cost_variance_score"], Rat(30, 100)),
            Mul(c["schedule_variance_score"], Rat(25, 100))),
        Add(Mul(c["performance_score"], Rat(25, 100)),
            Mul(c["compliance_score"], Rat(20, 100))))

\* h has one decimal and no number with one decimal is nearer to x
IsRoundedToTenth(h, x) ==
    /\ 10 % h.d = 0
    /\ Le(Sub(h, x), Rat(1, 20))
    /\ Le(Sub(x, h), Rat(1, 20))

\* C8: calculate_overall_health is the weighted sum 0.30/0.25/0.25/0.20 of the
\* values of the four sub-score functions for the same contract and milestones,
\* rounded to one decimal; after score_contract the stored overall health is
\* that sum of the four stored sub-scores.
C8_WeightedHealth ==
    Scored =>
        /\ contract["cost_variance_score"] = calculate_cost_variance_score(contract)
        /\ contract["schedule_variance_score"] = calculate_schedule_variance_score(contract)
        /\ contract["performance_score"] = calculate_performance_score(contract, milestones)
        /\ contract["compliance_score"] = calculate_compliance_score(contract)
        /\ contract["overall_health_score"] = calculate_overall_health(contract, milestones)
        /\ IsRoundedToTenth(contract["overall_health_score"], StoredWeightedSum(contract))

\* a milestone list, the linear tail of the cost score (33) and a weighted sum
\* that the rounding changes
C8_Witness ==
    /\ Scored
    /\ IsTrueList(milestones)
    /\ contract["cost_variance_score"] = Num(33)
    /\ contract["performance_score"] # Add(Num(35), Mul(Num(55), Rat(3, 10)))
    /\ contract["overall_health_score"].d = 5
    /\ StoredWeightedSum(contract) # contract["overall_health_score"]

ScoreFields ==
    {"cost_variance_score", "schedule_variance_score", "performance_score",
     "compliance_score", "overall_health_score"}

\* C9: with percent_complete in 0..100 the five scores written by
\* score_contract lie in [0, 100].
C9_ScoresInRange ==
    (Scored /\ Between(Num(0), NumberOr0(contract, "percent_complete"), Num(101))) =>
        \A k \in ScoreFields : Le(Num(0), contract[k]) /\ Le(contract[k], Num(100))

\* both floors of 20 and a full performance score in one record
C9_Witness ==
    /\ Scored
    /\ contract["cost_variance_score"] = Num(20)
    /\ contract["schedule_variance_score"] = Num(20)
    /\ contract["performance_score"] = Num(100)

Raised(v) == v \in {TypeError, ValueError}

\* C10: none of score_contract, calculate_vendor_score and get_vendor_metrics
\* raises on records with fields missing or null, a null overall_health_score,
\* schedule_variance_score or cost_variance_score included.
C10_NeverRaises ==
    /\ Scored => ~Raised(contract) /\ DerivedFields \subseteq DOMAIN contract
    /\ result.op \in {"calculate_vendor_score", "get_vendor_metrics"} => ~Raised(result.ret)

---------------------------------------------------------------------------
(* VendorScoringEngine: vendor score and metrics *)

\* the key is absent or holds a number
NumberOrAbsent(c, key) == key \in DOMAIN c => IsNum(c[key])

\* w_i: current_amount, 1 when it is missing, null or 0
WeightOf(c) ==
    IF "current_amount" \in DOMAIN c /\ IsNum(c["current_amount"])
       /\ c["current_amount"] # Num(0)
    THEN c["current_amount"] ELSE Num(1)

\* a score field of a contract, 50 when missing
ScoreOr50(c, key) == IF key \in DOMAIN c THEN c[key] ELSE Num(50)

\* sum(health_i * w_i) / sum(w_i)
WeightedMean(cs) ==
    Div(Sum([i \in DOMAIN cs |-> Mul(ScoreOr50(cs[i], "overall_health_score"), WeightOf(cs[i]))]),
        Sum([i \in DOMAIN cs |-> WeightOf(cs[i])]))

VendorScoreCalled ==
    /\ result.op = "calculate_vendor_score"
    /\ \A i \in DOMAIN contracts : NumberOrAbsent(contracts[i], "overall_health_score")

\* C11: calculate_vendor_score returns 50 for an empty contract list and
\* otherwise the value-weighted mean sum(health_i * w_i) / sum(w_i) rounded to
\* one decimal, w_i being current_amount (1 when missing, null or 0) and
\* health_i overall_health_score (50 when missing); values 100 and 900 with
\* health 80 and 40 give 44.0, not the unweighted 60.
C11_VendorWeightedMean ==
    VendorScoreCalled =>
        /\ contracts = <<>> => result.ret = Num(50)
        /\ contracts # <<>> =>
              /\ IsNum(result.ret)
              /\ IsRoundedToTenth(result.ret, WeightedMean(contracts))
        /\ (/\ Len(contracts) = 2
            /\ \A i \in 1..2 : {"current_amount", "overall_health_score"} \subseteq DOMAIN contracts[i]
            /\ contracts[1]["current_amount"] = Num(100)
            /\ contracts[1]["overall_health_score"] = Num(80)
            /\ contracts[2]["current_amount"] = Num(900)
            /\ contracts[2]["overall_health_score"] = Num(40))
           => result.ret = Num(44)

\* the example of the claim: values 100 and 900, health 80 and 40
C11_Witness ==
    /\ VendorScoreCalled
    /\ Len(contracts) = 2
    /\ GetOrNone(contracts[1], "current_amount") = Num(100)
    /\ GetOrNone(contracts[1], "overall_health_score") = Num(80)
    /\ GetOrNone(contracts[2], "current_amount") = Num(900)
    /\ GetOrNone(contracts[2], "overall_health_score") = Num(40)
    /\ result.ret = Num(44)

MetricsCalled ==
    /\ result.op = "get_vendor_metrics"
    /\ \A i \in DOMAIN contracts :
          \A key \in {"overall_health_score", "schedule_variance_score", "cost_variance_score"} :
              NumberOrAbsent(contracts[i], key)

\* how many contracts have the score field key at 70 or more, a missing one counting as 50
AtLeast70Count(cs, key) ==
    Cardinality({i \in DOMAIN cs : Le(Num(70), ScoreOr50(cs[i], key))})

StatusCount(cs, st) ==
    Cardinality({i \in DOMAIN cs : "status" \in DOMAIN cs[i] /\ cs[i]["status"] = Str(st)})

\* x is the percentage count / total, to one decimal
IsPercentage(x, count, total) ==
    IsNum(x) /\ IsRoundedToTenth(x, Rat(100 * count, total))

\* C12: for a non-empty contract list get_vendor_metrics returns
\* total_contracts = the list length, on_time_rate = the percentage of
\* contracts with schedule_variance_score >= 70, budget_adherence_rate = the
\* percentage with cost_variance_score >= 70 (a missing score counts as 50) and
\* the counts of contracts with status Active and Completed, so that active +
\* completed <= total_contracts; for an empty list it returns, without
\* raising, counts, value and rates of 0 and avg_health_score 50.
C12_VendorMetrics ==
    MetricsCalled =>
        LET r == result.ret
            n == Len(contracts)
        IN /\ ~Raised(r)
           /\ n = 0 =>
                 /\ r.total_contracts = Num(0) /\ r.total_value = Num(0)
                 /\ r.on_time_rate = Num(0) /\ r.budget_adherence_rate = Num(0)
                 /\ r.active_contracts = Num(0) /\ r.completed_contracts = Num(0)
                 /\ r.avg_health_score = Num(50)
           /\ n > 0 =>
                 /\ r.total_contracts = Num(n)
                 /\ IsPercentage(r.on_time_rate, AtLeast70Count(contracts, "schedule_variance_score"), n)
                 /\ IsPercentage(r.budget_adherence_rate, AtLeast70Count(contracts, "cost_variance_score"), n)
                 /\ r.active_contracts = Num(StatusCount(contracts, "Active"))
                 /\ r.completed_contracts = Num(StatusCount(contracts, "Completed"))
                 /\ Le(Add(r.active_contracts, r.completed_contracts), r.total_contracts)

\* two contracts, one with schedule score exactly 70 and one with 65; cost
\* scores 70 and 69.9; one Active, one Draft
C12_Witness ==
    /\ MetricsCalled
    /\ Len(contracts) = 2
    /\ GetOrNone(contracts[1], "schedule_variance_score") = Num(70)
    /\ GetOrNone(contracts[2], "schedule_variance_score") = Num(65)
    /\ GetOrNone(contracts[2], "cost_variance_score") = Rat(699, 10)
    /\ result.ret.on_time_rate = Num(50)
    /\ result.ret.budget_adherence_rate = Num(50)
    /\ result.ret.active_contracts = Num(1)
    /\ result.ret.completed_contracts = Num(0)

---------------------------------------------------------------------------
(* AlertGenerator: the rules *)

AlertsCalled == result.op = "generate_alerts"

\* the returned list holds an alert of type rule_id for the contract id of c
Emitted(c, rule_id) ==
    \E j \in DOMAIN result.ret :
        /\ result.ret[j].contract_id = GetOrNone(c, "contract_id")
        /\ result.ret[j].alert_type = rule_id

HasPositiveOriginal(c) ==
    /\ "original_amount" \in DOMAIN c
    /\ IsNum(c["original_amount"])
    /\ Lt(Num(0), c["original_amount"])

\* (current - original) / original * 100, a current amount that is no number counting as 0
VariancePct(c) ==
    Mul(Div(Sub(NumberOr0(c, "current_amount"), c["original_amount"]), c["original_amount"]),
        Num(100))

\* C13: for every contract with original_amount > 0, generate_alerts emits
\* cost_overrun_warning iff variance_pct is in [10,20) and cost_overrun_critical
\* iff it is in [20,100); the two are never emitted for the same contract (a
\* 25% overrun gives cost_overrun_critical only), and an overrun of 100% or
\* more gets neither.
C13_CostAlerts ==
    AlertsCalled =>
        \A i \in DOMAIN contracts :
            LET c == contracts[i]
            IN HasPositiveOriginal(c) =>
                 /\ Emitted(c, "cost_overrun_warning")
                      <=> Between(Num(10), VariancePct(c), Num(20))
                 /\ Emitted(c, "cost_overrun_critical")
                      <=> Between(Num(20), VariancePct(c), Num(100))
                 /\ ~(Emitted(c, "cost_overrun_warning") /\ Emitted(c, "cost_overrun_critical"))
                 /\ Le(Num(100), VariancePct(c)) =>
                        /\ ~Emitted(c, "cost_overrun_warning")
                        /\ ~Emitted(c, "cost_overrun_critical")
                 /\ VariancePct(c) = Num(25) =>
                        /\ Emitted(c, "cost_overrun_critical")
                        /\ ~Emitted(c, "cost_overrun_warning")

\* original_amount 100000, current_amount 125000: the critical alert alone
C13_Witness ==
    /\ AlertsCalled
    /\ Len(contracts) = 1
    /\ GetOrNone(contracts[1], "original_amount") = Num(100000)
    /\ GetOrNone(contracts[1], "current_amount") = Num(125000)
    /\ Len(result.ret) = 1
    /\ result.ret[1].alert_type = "cost_overrun_critical"
    /\ result.ret[1].severity = "Critical"

\* C17: generate_alerts emits a low_health_score alert for a contract iff its
\* overall_health_score is present and strictly below 50 (an absent score
\* emits nothing); this holds for every numeric score below 50, including 0.
C17_LowHealthAlert ==
    AlertsCalled =>
        \A i \in DOMAIN contracts :
            LET c == contracts[i]
            IN Emitted(c, "low_health_score")
                 <=> /\ "overall_health_score" \in DOMAIN c
                     /\ IsNum(c["overall_health_score"])
                     /\ Lt(c["overall_health_score"], Num(50))

\* the end date of c: current_end_date, else original_end_date
EndDateOf(c) == Or(GetOrNone(c, "current_end_date"), GetOrNone(c, "original_end_date"))

\* seconds from now to the midnight that starts day
SecondsUntil(day, now) ==
    (ToOrdinal(day.y, day.m, day.d) - ToOrdinal(now.y, now.m, now.d)) * 86400 - now.secs

\* C18: generate_alerts emits expiring_soon for a contract iff its end date
\* (current_end_date, else original_end_date, taken as midnight of that date)
\* lies strictly between the current instant and the current instant plus 30
\* days; an end date less than 24 hours ahead fires the alert and one more
\* than 30 days ahead does not.
C18_ExpiringSoon ==
    AlertsCalled =>
        \A i \in DOMAIN contracts :
            LET c == contracts[i]
                end_dt == fromisoformat10(EndDateOf(c))
            IN Emitted(c, "expiring_soon")
                 <=> /\ end_dt # ValueError
                     /\ 0 < SecondsUntil(end_dt, result.now)
                     /\ SecondsUntil(end_dt, result.now) < 30 * 86400

---------------------------------------------------------------------------
(* AlertGenerator: the returned list *)

Critical == 0
High == 1
Medium == 2
Low == 3

RankOf(alert) ==
    CASE alert.severity = "Critical" -> Critical
      [] alert.severity = "High" -> High
      [] alert.severity = "Medium" -> Medium
      [] alert.severity = "Low" -> Low

RuleIndex(rule_id) == CHOOSE k \in DOMAIN alert_rules : alert_rules[k].id = rule_id

DistinctIds(cs) ==
    \A i, j \in DOMAIN cs :
        i # j => GetOrNone(cs[i], "contract_id") # GetOrNone(cs[j], "contract_id")

\* the place in the input list of the contract an alert is about
ContractIndex(cs, alert) ==
    CHOOSE i \in DOMAIN cs : GetOrNone(cs[i], "contract_id") = alert.contract_id

\* a was generated before b: an earlier contract, or the same contract and an earlier rule
GeneratedBefore(cs, a, b) ==
    \/ ContractIndex(cs, a) < ContractIndex(cs, b)
    \/ /\ ContractIndex(cs, a) = ContractIndex(cs, b)
       /\ RuleIndex(a.alert_type) < RuleIndex(b.alert_type)

Raises(c, rule_id, now) == IsException(Condition(rule_id, c, now))

\* the predicate of the rule is true of c
Fires(c, rule_id, now) ==
    ~Raises(c, rule_id, now) /\ Truthy(Condition(rule_id, c, now))

RuleIds == {alert_rules[k].id : k \in DOMAIN alert_rules}

\* c without the fields on which a predicate raises
WithoutMalformed(c) ==
    [k \in {x \in DOMAIN c :
               ~(x \in {"original_amount", "current_amount", "overall_health_score",
                        "change_order_count"} /\ ~IsNum(c[x]) /\ c[x] # None)} |-> c[k]]

\* C15: if evaluating a rule's predicate on a contract raises, generate_alerts
\* still returns normally, and the alerts it returns for every other
\* (contract, rule) pair are exactly those it would return if the failing
\* pair were absent, the other rules of the same contract included.
C15_FaultIsolation ==
    AlertsCalled =>
        /\ DOMAIN result.ret = 1..Len(result.ret)
        /\ \A i \in DOMAIN contracts : \A id \in RuleIds :
              ~Raises(contracts[i], id, result.now) =>
                  (Fires(contracts[i], id, result.now)
                      => \E j \in DOMAIN result.ret :
                            /\ result.ret[j].alert_type = id
                            /\ result.ret[j].contract_id = GetOrNone(contracts[i], "contract_id"))
        /\ result.ret =
              generate_alerts([i \in DOMAIN contracts |-> WithoutMalformed(contracts[i])],
                              result.now)

\* the first contract has a non-numeric original_amount and a low health
\* score: its cost rules raise, its low_health_score alert is returned, and so
\* is the critical cost alert of the second contract
C15_Witness ==
    /\ AlertsCalled
    /\ Len(contracts) = 2
    /\ DistinctIds(contracts)
    /\ Raises(contracts[1], "cost_overrun_warning", result.now)
    /\ Raises(contracts[1], "cost_overrun_critical", result.now)
    /\ Emitted(contracts[1], "low_health_score")
    /\ Emitted(contracts[1], "no_activity")
    /\ Emitted(contracts[2], "cost_overrun_critical")

\* how many alerts of the list are of type rule_id for contract id
AlertCount(ret, id, rule_id) ==
    Cardinality({j \in DOMAIN ret : ret[j].contract_id = id /\ ret[j].alert_type = rule_id})

\* how many contracts with that id make the rule's predicate true
FiringCount(cs, id, rule_id, now) ==
    Cardinality({i \in DOMAIN cs :
                    GetOrNone(cs[i], "contract_id") = id /\ Fires(cs[i], rule_id, now)})

\* C16: generate_alerts emits exactly one alert for each (contract, rule) pair
\* whose predicate is true and none for any other pair; the alert has alert_id
\* = contract_id + '_' + rule id, alert_type = rule id and the rule's
\* severity, so for contracts with pairwise distinct contract_id values all
\* alert_id values of the output are pairwise distinct.
C16_OneAlertPerPair ==
    AlertsCalled =>
        LET ret == result.ret
        IN /\ \A i \in DOMAIN contracts : \A id \in RuleIds :
                 AlertCount(ret, GetOrNone(contracts[i], "contract_id"), id)
                     = FiringCount(contracts, GetOrNone(contracts[i], "contract_id"), id,
                                   result.now)
           /\ \A j \in DOMAIN ret :
                 /\ \E i \in DOMAIN contracts :
                       ret[j].contract_id = GetOrNone(contracts[i], "contract_id")
                 /\ ret[j].alert_type \in RuleIds
                 /\ ret[j].severity = alert_rules[RuleIndex(ret[j].alert_type)].severity
                 /\ ret[j].alert_id = Format(ret[j].contract_id) \o "_" \o ret[j].alert_type
           /\ DistinctIds(contracts) =>
                 \A p, q \in DOMAIN ret : p # q => ret[p].alert_id # ret[q].alert_id

\* two contracts with different ids that both trigger multiple_change_orders
C16_Witness ==
    /\ AlertsCalled
    /\ Len(contracts) = 2
    /\ DistinctIds(contracts)
    /\ \E p, q \in DOMAIN result.ret :
          /\ p # q
          /\ result.ret[p].alert_id = "C-006_multiple_change_orders"
          /\ result.ret[q].alert_id = "C-007_multiple_change_orders"
    /\ Len(result.ret) >= 6

---------------------------------------------------------------------------
(* BenchmarkingEngine: score_kpi *)

KpiCalled == result.op = "score_kpi"

KnownKpi == result.kpi_id \in DOMAIN COUPA_BENCHMARKS

\* C19: score_kpi fails with an unknown-KPI error (ValueError) for every
\* kpi_id that is not a key of the benchmark table, and returns a KPIScore
\* without error for every kpi_id that is a key, whatever the actual value (0
\* and negative values included).
C19_UnknownKpi ==
    KpiCalled =>
        /\ ~KnownKpi => result.ret = ValueError
        /\ KnownKpi =>
              /\ result.ret.t = "KPIScore"
              /\ result.ret.kpi_id = result.kpi_id
              /\ result.ret.actual_value = result.actual_value

\* an id that differs from a key only in its capitals
C19_Witness ==
    /\ KpiCalled
    /\ result.kpi_id = "On_Contract_Spend"
    /\ result.ret = ValueError

\* the actual value meets the benchmark of the KPI scored
MeetsBenchmark ==
    LET kpi == COUPA_BENCHMARKS[result.kpi_id]
    IN IF kpi.direction = "higher" THEN Le(kpi.benchmark_value, result.actual_value)
       ELSE Le(result.actual_value, kpi.benchmark_value)

\* for a value that misses the benchmark: the share reached, in percent, before rounding
ShareOfBenchmark ==
    LET kpi == COUPA_BENCHMARKS[result.kpi_id]
    IN IF kpi.direction = "higher"
       THEN Max(Num(0), Mul(Div(result.actual_value, kpi.benchmark_value), Num(100)))
       ELSE Mul(Div(kpi.benchmark_value, result.actual_value), Num(100))

ScoreWithin0And100 ==
    Le(Num(0), result.ret.score) /\ Le(result.ret.score, Num(100))

\* C20 (amended): for every known KPI and every actual value the score lies in
\* [0, 100]; it is exactly 100 whenever the actual value meets the benchmark,
\* and otherwise it is strictly below 100 exactly when the score before
\* rounding to one decimal is below 99.95.
C20_ScoreRange ==
    (KpiCalled /\ KnownKpi) =>
        /\ ScoreWithin0And100
        /\ MeetsBenchmark => result.ret.score = Num(100)
        /\ ~MeetsBenchmark =>
              (Lt(result.ret.score, Num(100)) <=> Lt(ShareOfBenchmark, Rat(9995, 100)))

\* 24.39 against the benchmark 24.4 of a higher-is-better KPI: 99.96 before
\* rounding, 100.0 returned
C20_Witness ==
    /\ KpiCalled
    /\ result.kpi_id = "increase_visibility_managed_spend"
    /\ result.actual_value = Rat(2439, 100)
    /\ ~MeetsBenchmark
    /\ result.ret.score = Num(100)

\* C20: for every known KPI and every actual value the score lies in [0, 100];
\* it is exactly 100 whenever the actual value meets the benchmark (actual >=
\* benchmark for a higher-is-better KPI, actual <= benchmark for a
\* lower-is-better one), and strictly below 100 otherwise.
C20_AsClaimed ==
    (KpiCalled /\ KnownKpi) =>
        /\ ScoreWithin0And100
        /\ MeetsBenchmark => result.ret.score = Num(100)
        /\ ~MeetsBenchmark => Lt(result.ret.score, Num(100))

\* the band of a score
RatingBand(score) ==
    IF Le(Num(90), score) THEN "Excellent"
    ELSE IF Le(Num(75), score) THEN "Good"
    ELSE IF Le(Num(60), score) THEN "Fair"
    ELSE IF Le(Num(40), score) THEN "Poor"
    ELSE "Critical"

\* C21: in every KPIScore returned by score_kpi, the rating field is the band
\* of the score field of that same result (the value rounded to one decimal):
\* score >= 90 Excellent, >= 75 Good, >= 60 Fair, >= 40 Poor, otherwise
\* Critical.
C21_RatingOfScore ==
    (KpiCalled /\ KnownKpi) => result.ret.rating = RatingBand(result.ret.score)

---------------------------------------------------------------------------
(* score_category and calculate_health_score *)

CategoryCalled == result.op = "score_category"
HealthCalled == result.op = "calculate_health_score"

\* the sum of f[k] over the keys k in S
RECURSIVE SumOver(_, _)
SumOver(S, f) ==
    IF S = {} THEN Num(0)
    ELSE LET k == CHOOSE x \in S : TRUE IN Add(f[k], SumOver(S \ {k}, f))

\* the KPIs of a category that are keys of the values
ObservedKpis(category_id, values) ==
    {k \in DOMAIN COUPA_BENCHMARKS :
        COUPA_BENCHMARKS[k].category = category_id /\ k \in DOMAIN values}

ImportanceWeight(k) ==
    CASE COUPA_BENCHMARKS[k].importance = "critical" -> Num(2)
      [] COUPA_BENCHMARKS[k].importance = "high" -> Rat(3, 2)
      [] COUPA_BENCHMARKS[k].importance = "medium" -> Num(1)
      [] COUPA_BENCHMARKS[k].importance = "low" -> Rat(1, 2)

\* the importance-weighted mean of the scores of the KPIs in S, to one decimal
ImportanceWeightedMean(S, values) ==
    Round1(Div(SumOver(S, [k \in S |-> Mul(score_kpi(k, values[k]).score, ImportanceWeight(k))]),
               SumOver(S, [k \in S |-> ImportanceWeight(k)])))

\* C22: score_category scores exactly the KPIs of the category that are keys of
\* kpi_values, each once, and returns their importance-weighted mean (critical 2,
\* high 1.5, medium 1, low 0.5) to one decimal; nothing else contributes, and a
\* category with no observed KPI scores 0 with an empty kpi_scores list
C22_CategoryWeightedMean ==
    CategoryCalled =>
        LET S == ObservedKpis(result.category_id, kpi_values)
            kpi_scores == result.ret.kpi_scores
        IN /\ Len(kpi_scores) = Cardinality(S)
           /\ \A k \in S : \E i \in DOMAIN kpi_scores : kpi_scores[i] = score_kpi(k, kpi_values[k])
           /\ result.ret.score = IF S = {} THEN Num(0) ELSE ImportanceWeightedMean(S, kpi_values)

\* procurement scored from KPIs of different importance and different scores,
\* one procurement KPI absent and a key of another category present
C22_Witness ==
    /\ CategoryCalled
    /\ result.category_id = "procurement"
    /\ \E i, j \in DOMAIN result.ret.kpi_scores :
          /\ ImportanceWeight(result.ret.kpi_scores[i].kpi_id)
                # ImportanceWeight(result.ret.kpi_scores[j].kpi_id)
          /\ result.ret.kpi_scores[i].score # result.ret.kpi_scores[j].score
    /\ "requisition_to_order_cycle_time" \notin DOMAIN kpi_values
    /\ "on_contract_spend" \in DOMAIN kpi_values

\* the categories with at least one observed KPI
ObservedCategories(values) ==
    {c \in DOMAIN BENCHMARK_CATEGORIES : ObservedKpis(c, values) # {}}

\* the mean of the category scores of the categories in S weighted by
\* category_weights, to one decimal
CategoryWeightedMean(S, category_scores) ==
    Round1(Div(SumOver(S, [c \in S |-> Mul(category_scores[c].score, category_weights[c])]),
               SumOver(S, [c \in S |-> category_weights[c]])))

\* C23: the overall score is the category-weight-weighted mean over the
\* categories with at least one observed KPI, whatever categories without data
\* exist; it is 0 when no KPI is observed
C23_OverallObservedOnly ==
    HealthCalled =>
        LET S == ObservedCategories(kpi_values)
        IN result.ret.overall_score =
              IF S = {} THEN Num(0) ELSE CategoryWeightedMean(S, result.ret.category_scores)

\* two categories of different weight observed with different scores, others not
C23_Witness ==
    /\ HealthCalled
    /\ ObservedCategories(kpi_values) = {"procurement", "source_to_contract"}
    /\ result.ret.category_scores["procurement"].score
          # result.ret.category_scores["source_to_contract"].score
    /\ result.ret.overall_score # Num(0)

\* the grade and rating bands applied to a score
GradeBand(score) ==
    IF Ge(score, Num(90)) THEN <<"A", "Excellent">>
    ELSE IF Ge(score, Num(80)) THEN <<"B", "Good">>
    ELSE IF Ge(score, Num(70)) THEN <<"C", "Fair">>
    ELSE IF Ge(score, Num(60)) THEN <<"D", "Poor">>
    ELSE <<"F", "Critical">>

\* C24: in every ProcurementHealthScore the grade and the rating are the band of
\* its own overall_score field (the value rounded to one decimal): >= 90
\* A/Excellent, >= 80 B/Good, >= 70 C/Fair, >= 60 D/Poor, below 60 F/Critical
C24_GradeOfOverallScore ==
    HealthCalled =>
        <<result.ret.grade, result.ret.rating>> = GradeBand(result.ret.overall_score)

\* the peer comparison of a call made with scores in peer_data
HasComparison == HealthCalled /\ DOMAIN result.ret.peer_comparison # {}

\* C25: a call of calculate_health_score leaves peer_data as it was, and a call
\* that follows one with the same kpi_values and the same peer_data object
\* returns the same peer comparison
C25_PeerDataUnchanged ==
    [][/\ HealthCalled' => peer_data' = peer_data
       /\ (HealthCalled /\ HealthCalled') =>
             result'.ret.peer_comparison = result.ret.peer_comparison]_vars

\* the peer scores passed to the call together with the entity's own score
CombinedScores ==
    Append(result.peer_data["scores"], OverallScore(result.ret.category_scores))

\* the median of a list of numbers: the middle value, or the mean of the two
\* middle values of a list of even length
Median(list) ==
    LET sorted == SortDescending(list)
        half == Len(list) \div 2
    IN IF Len(list) % 2 = 1 THEN sorted[half + 1]
       ELSE Div(Add(sorted[half], sorted[half + 1]), Num(2))

\* C26: for a non-empty peer score list the comparison is taken over the peer
\* scores plus the own score: rank is 1 + the number of scores strictly greater
\* than the own score, total_peers the number of peer scores plus one,
\* peer_average the mean and peer_median the median of the combined list (to
\* one decimal)
C26_PeerComparison ==
    HasComparison =>
        LET combined == CombinedScores
            own == combined[Len(combined)]
            comparison == result.ret.peer_comparison
        IN /\ comparison.rank = 1 + Cardinality({i \in DOMAIN combined : Lt(own, combined[i])})
           /\ comparison.total_peers = Len(result.peer_data["scores"]) + 1
           /\ comparison.peer_average = Round1(Div(Sum(combined), Num(Len(combined))))
           /\ comparison.peer_median = Round1(Median(combined))

\* the KPIScores of the result, over all categories
ObservedScores ==
    UNION {{result.ret.category_scores[c].kpi_scores[i] :
               i \in DOMAIN result.ret.category_scores[c].kpi_scores} :
           c \in DOMAIN result.ret.category_scores}

ScoresRated(ratings) == {s \in ObservedScores : s.rating \in ratings}

\* the names listed in priority_improvements and in top_strengths
ImprovementNames ==
    {result.ret.priority_improvements[i].name : i \in DOMAIN result.ret.priority_improvements}
StrengthNames ==
    {result.ret.top_strengths[i].name : i \in DOMAIN result.ret.top_strengths}

\* C28: priority_improvements has at most 5 entries, each a KPI rated Poor or
\* Critical, and when more than 5 observed KPIs are rated Poor or Critical they
\* are the 5 lowest-scoring of them; top_strengths has at most 5 entries, each a
\* KPI rated Excellent or Good; no KPI is in both lists
C28_ImprovementsAndStrengths ==
    HealthCalled =>
        LET weak == ScoresRated({"Poor", "Critical"})
            strong == ScoresRated({"Excellent", "Good"})
        IN /\ Len(result.ret.priority_improvements) <= 5
           /\ ImprovementNames \subseteq {s.name : s \in weak}
           /\ Cardinality(weak) > 5 =>
                 /\ Cardinality(ImprovementNames) = 5
                 /\ \A s \in weak : \A u \in weak :
                       (s.name \in ImprovementNames /\ u.name \notin ImprovementNames)
                          => Le(s.score, u.score)
           /\ Len(result.ret.top_strengths) <= 5
           /\ StrengthNames \subseteq {s.name : s \in strong}
           /\ ImprovementNames \cap StrengthNames = {}

---------------------------------------------------------------------------
(* Frame of the operations, and consistency of scores, risk tier and alerts *)

\* C29: score_contract changes only the six derived fields of the contract and
\* leaves every other field and every milestone unchanged; generate_alerts,
\* calculate_vendor_score and get_vendor_metrics leave the contract records they
\* are given unchanged
C29_Frame ==
    [][/\ DOMAIN contract' = DOMAIN contract \cup
                                (IF contract' # contract THEN DerivedFields ELSE {})
       /\ \A k \in DOMAIN contract \ DerivedFields : contract'[k] = contract[k]
       /\ milestones' = milestones
       /\ contracts' = contracts]_vars

\* a record whose derived fields the scoring changed, scored with milestones,
\* and a vendor or alert operation run on a non-empty list
C29_Witness ==
    /\ calls >= 1
    /\ prev # contract
    /\ IsTrueList(milestones)
    /\ result.op \in {"generate_alerts", "calculate_vendor_score", "get_vendor_metrics"}
    /\ contracts # <<>>

ScoredAlertsCalled == result.op = "generate_alerts_on_scored"

\* the risk tier of a health score: below 30 Critical, below 50 High, below 70
\* Medium, else Low
RiskTier(health_score) ==
    IF Lt(health_score, Num(30)) THEN "Critical"
    ELSE IF Lt(health_score, Num(50)) THEN "High"
    ELSE IF Lt(health_score, Num(70)) THEN "Medium"
    ELSE "Low"

\* C30: for every record produced by score_contract the risk_level is the tier
\* of its overall_health_score, and generate_alerts on that record emits
\* low_health_score iff the risk_level is Critical or High and emits
\* insurance_expired only if the compliance_score is at most 80
C30_ScoresTierAlertsConsistent ==
    /\ calls >= 1 => contract["risk_level"] = Str(RiskTier(contract["overall_health_score"]))
    /\ ScoredAlertsCalled =>
          /\ Emitted(contract, "low_health_score")
                <=> contract["risk_level"] \in {Str("Critical"), Str("High")}
          /\ Emitted(contract, "insurance_expired")
                => Le(contract["compliance_score"], Num(80))

BatchCalled == result.op = "batch_score_contracts"

\* C27: every row of the table batch_score_contracts returns carries the six
\* derived fields that score_contract, called with no milestones, writes for
\* that row's record, also when the rows carry derived columns already and when
\* original_amount, current_amount or percent_complete is missing; the input
\* table is not modified and an empty table is returned as it is
C27_BatchAgreesWithSingle ==
    BatchCalled =>
        /\ Len(result.ret) = Len(contracts)
        /\ \A i \in DOMAIN contracts : \A k \in DerivedFields :
              result.ret[i][k] = score_contract(contracts[i], None)[k]
        /\ result.df_after = result.df
        /\ contracts = <<>> => result.ret = result.df

====
